---- MODULE Spec2Model ----
\* Behaviour-and-lifecycle engine of DorfLife: male mating strategies, female
\* mate selection, gestation/birth (the reproduction system) and aging, health,
\* melee combat and death (the lifespan/combat system).
\*
\* Units.  Positions are kept in tenths of a world unit (PosScale), so that the
\* movement speeds 1.0, 1.1 and 1.2 are exact.  Health is kept in units of
\* 1 / HealthScale hit point, so that the per-tick healing (0.1) and the aging
\* damage are integers.  Attack cooldowns are kept in elevenths of a tick
\* (CooldownScale), so that 60 / 1.1 is exact.
EXTENDS Integers, Sequences, FiniteSets, TLC

\* ---------------------------------------------------------------- bounds
MaxAgents == 4       \* ids available to the population, newborns included
MaxTicks == 2        \* calls into the engine in one behaviour

\* ----------------------------------------------------------- JS sentinels
null == 0
undefined == -1

\* ------------------------------------------------- REPRODUCTION_CONFIG
PREGNANCY_DURATION == 3600
FEMALE_REPRODUCTION_COOLDOWN == 7200
MALE_REPRODUCTION_COOLDOWN == 3600
MALE_STRATEGIES == <<"orange", "blue", "yellow">>
ORANGE_STRATEGY ==
  [cooldown |-> 300, territoryRadius |-> 80, matingDistance |-> 25,
   competitorDistance |-> 60]
BLUE_STRATEGY == [cooldown |-> 240, guardDistance |-> 30, maxGuardRange |-> 40]
YELLOW_STRATEGY ==
  [cooldown |-> 180, matingDistance |-> 35, guardDetectionRadius |-> 50,
   hidingRange |-> 100]
FEMALE_SELECTION ==
  [baseScore |-> 50, randomVariance |-> 20,
   agreeableness |-> [threshold |-> 60, blueBonus |-> 30, orangePenalty |-> -10],
   openness |-> [threshold |-> 70, yellowBonus |-> 20],
   neuroticism |-> [threshold |-> 40, orangeBonus |-> 25],
   proximityRadius |-> 40]
SPATIAL == [fleeTimer |-> 180, babySpawnRadius |-> 40]
FailSafeCooldown == 600
CanvasWidth == 800
CanvasHeight == 600

PosScale == 10

\* ------------------------------------------------------------------ state
VARIABLES
  dwarfs,        \* game.dwarfs: the population, ids in insertion order
  dw,            \* id -> the agent object (its fields)
  emitted,       \* events passed to ReproductionEventBus.emit by the last operation
  calls,         \* mating attempts made by the last operation, with their rolls
  last,          \* the last operation and the random numbers it drew
  ticks,         \* calls into the engine so far
  DwarfDefined,  \* typeof Dwarf === 'function' in the host's global scope
  timeouts,      \* pending setTimeout callbacks, in expiry order
  attacks,       \* attacks resolved by the last operation
  deathLog,      \* deaths processed by the last operation, as logged
  bus,           \* the ReproductionEventBus object and what its last call did
  applied        \* a stateless function of the engine: its argument and result

vars == <<dwarfs, dw, emitted, calls, last, ticks, DwarfDefined, timeouts,
          attacks, deathLog, bus, applied>>

\* no stateless function has been applied
NoCall == [fn |-> "none"]

Ids == 1..MaxAgents

Range(s) == {s[k] : k \in 1..Len(s)}

Ev(t, a, b, ok, n) == [type |-> t, a |-> a, b |-> b, ok |-> ok, n |-> n]

\* ReproductionEventBus.emit, as far as the engine's state is concerned: the
\* event is recorded in publication order.
emit(w, e) == [w EXCEPT !.ev = Append(@, e)]

\* ------------------------------------------------------- WorldInterface
\* squared distance, in squared position units
Dist2(p, q) == (p.x - q.x) * (p.x - q.x) + (p.y - q.y) * (p.y - q.y)

\* calculateDistance(a, b) < r, r in world units
Closer(D, a, b, r) == Dist2(D[a], D[b]) < (r * PosScale) * (r * PosScale)

getAvailableFemales(w) ==
  SelectSeq(w.pop, LAMBDA i :
      /\ w.dw[i].isAdult
      /\ w.dw[i].gender = "female"
      /\ ~w.dw[i].isPregnant
      /\ w.dw[i].reproductionCooldown <= 0)

getNearbyDwarfs(w, c, r) ==
  SelectSeq(w.pop, LAMBDA i : i # c /\ Closer(w.dw, c, i, r))

getNearbyMales(w, c, r, excludeMale) ==
  SelectSeq(getNearbyDwarfs(w, c, r), LAMBDA i :
      w.dw[i].gender = "male" /\ w.dw[i].isAdult /\ i # excludeMale)

getNearbyMalesForFemale(w, f, r) ==
  SelectSeq(getNearbyDwarfs(w, f, r), LAMBDA i :
      w.dw[i].isAdult /\ w.dw[i].gender = "male")

setDwarfTarget(w, i, tx, ty) ==
  [w EXCEPT !.dw[i].targetX = tx, !.dw[i].targetY = ty]

setDwarfTask(w, i, task, workTimer) ==
  [w EXCEPT !.dw[i].task = task,
            !.dw[i].workTimer = IF workTimer > 0 THEN workTimer ELSE @]

\* ------------------------------------------------------------- randomness
\* Math.random() is a draw u in 0..RandGrain-1 standing for u / RandGrain; a
\* comparison Math.random() < p with 0 < p < 1 is a boolean draw.
RandGrain == 2
Rand == 0..(RandGrain - 1)

\* Math.floor(Math.random() * n), as a 1-based index, for a draw u in 0..n-1
RandomIndex(u, n) == (u % n) + 1

\* base + Math.random() * range - range / 2, in position units
RandomOffset(base, u, range) ==
  base + ((u * range * PosScale) \div RandGrain) - ((range * PosScale) \div 2)

\* ------------------------------------------------------------ BaseStrategy
Attempt(by, m, f, available, roll) ==
  [by |-> by, male |-> m, female |-> f, available |-> available, roll |-> roll]

\* faulty variant: attemptMating that goes on when the female is not available
MutAttemptMatingNoPrecondition(w, m, f, roll) ==
  LET w0 == [w EXCEPT !.att = Append(@, Attempt("male", m, f,
                ~(w.dw[f].reproductionCooldown > 0 \/ w.dw[f].isPregnant), roll))]
      w1 == emit(w0, Ev("mating_attempt", m, f, roll, 0))
  IN  IF roll
      THEN emit([w1 EXCEPT !.dw[f].isPregnant = TRUE,
                           !.dw[f].pregnancyTimer = 0,
                           !.dw[f].reproductionCooldown = FEMALE_REPRODUCTION_COOLDOWN,
                           !.dw[m].reproductionCooldown = MALE_REPRODUCTION_COOLDOWN],
                Ev("mating_success", m, f, TRUE, 0))
      ELSE w1

\* faulty variant: attemptMating with the two cooldown constants exchanged
MutAttemptMatingMaleCooldownSwapped(w, m, f, roll) ==
  IF w.dw[f].reproductionCooldown > 0 \/ w.dw[f].isPregnant
  THEN emit([w EXCEPT !.att = Append(@, Attempt("male", m, f, FALSE, roll))],
            Ev("mating_failure", m, f, FALSE, 0))
  ELSE LET w0 == [w EXCEPT !.att = Append(@, Attempt("male", m, f, TRUE, roll))]
           w1 == emit(w0, Ev("mating_attempt", m, f, roll, 0))
       IN  IF roll
           THEN emit([w1 EXCEPT !.dw[f].isPregnant = TRUE,
                                !.dw[f].pregnancyTimer = 0,
                                !.dw[f].reproductionCooldown = MALE_REPRODUCTION_COOLDOWN,
                                !.dw[m].reproductionCooldown = FEMALE_REPRODUCTION_COOLDOWN],
                     Ev("mating_success", m, f, TRUE, 0))
           ELSE w1

\* BaseStrategy.attemptMating(male, female); roll is Math.random() < MATING_SUCCESS_RATE
attemptMating(w, m, f, roll) ==
  IF w.dw[f].reproductionCooldown > 0 \/ w.dw[f].isPregnant
  THEN emit([w EXCEPT !.att = Append(@, Attempt("male", m, f, FALSE, roll))],
            Ev("mating_failure", m, f, FALSE, 0))
  ELSE LET w0 == [w EXCEPT !.att = Append(@, Attempt("male", m, f, TRUE, roll))]
           w1 == emit(w0, Ev("mating_attempt", m, f, roll, 0))
       IN  IF roll
           THEN emit([w1 EXCEPT !.dw[f].isPregnant = TRUE,
                                !.dw[f].pregnancyTimer = 0,
                                !.dw[f].reproductionCooldown = FEMALE_REPRODUCTION_COOLDOWN,
                                !.dw[m].reproductionCooldown = MALE_REPRODUCTION_COOLDOWN],
                     Ev("mating_success", m, f, TRUE, 0))
           ELSE w1

setMateSeekingTimer(w, m, cooldown) == [w EXCEPT !.dw[m].mateSeekingTimer = cooldown]

selectRandomFemale(availableFemales, u) ==
  availableFemales[RandomIndex(u, Len(availableFemales))]

\* ---------------------------------------------------------- OrangeStrategy
\* displaceCompetitor(territorial, competitor)
displaceCompetitor(w, t, c) ==
  LET fleeX == IF w.dw[t].x < w.dw[c].x THEN CanvasWidth * PosScale ELSE 0
      fleeY == IF w.dw[t].y < w.dw[c].y THEN CanvasHeight * PosScale ELSE 0
      w1 == setDwarfTask(w, c, "fleeing", SPATIAL.fleeTimer)
      w2 == setDwarfTarget(w1, c, fleeX, fleeY)
  IN  emit(w2, Ev("competitor_displaced", t, c, TRUE, 0))

\* competitors.forEach(...): each competitor whose displacement roll succeeds
\* (those in the set displaced) is displaced, in enumeration order
RECURSIVE displaceAll(_, _, _, _, _)
displaceAll(w, t, competitors, k, displaced) ==
  IF k > Len(competitors) THEN w
  ELSE displaceAll(IF competitors[k] \in displaced
                   THEN displaceCompetitor(w, t, competitors[k]) ELSE w,
                   t, competitors, k + 1, displaced)

\* OrangeStrategy.establishTerritory(male, female)
establishTerritory(w, m, f, r) ==
  IF Closer(w.dw, m, f, ORANGE_STRATEGY.territoryRadius)
  THEN LET w1 == [w EXCEPT !.dw[m].territoryX = w.dw[f].x,
                           !.dw[m].territoryY = w.dw[f].y]
           competitors ==
             getNearbyMales(w1, f, ORANGE_STRATEGY.competitorDistance, m)
           w2 == displaceAll(w1, m, competitors, 1, r.displaced)
           w3 == emit(w2, Ev("territory_established", m, f, TRUE, Len(competitors)))
       IN  IF Closer(w3.dw, m, f, ORANGE_STRATEGY.matingDistance) /\ r.chance
           THEN attemptMating(w3, m, f, r.success)
           ELSE w3
  ELSE w

\* OrangeStrategy.execute(male)
OrangeExecute(w, m, r) ==
  LET availableFemales == getAvailableFemales(w)
  IN  IF Len(availableFemales) = 0
      THEN setMateSeekingTimer(w, m, ORANGE_STRATEGY.cooldown)
      ELSE setMateSeekingTimer(
             establishTerritory(w, m, selectRandomFemale(availableFemales, r.pick), r),
             m, ORANGE_STRATEGY.cooldown)

\* ------------------------------------------------------------ BlueStrategy
\* faulty variant: guardFemale that guards but never attempts to mate
MutGuardFemaleNeverMates(w, m, f, r) ==
  LET w1 == [w EXCEPT !.dw[m].guardedFemale = f]
      w2 == setDwarfTarget(w1, m,
              RandomOffset(w1.dw[f].x, r.ux, BLUE_STRATEGY.maxGuardRange),
              RandomOffset(w1.dw[f].y, r.uy, BLUE_STRATEGY.maxGuardRange))
  IN  emit(w2, Ev("female_guarded", m, f, TRUE, 0))

\* BlueStrategy.guardFemale(male, female)
guardFemale(w, m, f, r) ==
  LET w1 == [w EXCEPT !.dw[m].guardedFemale = f]
      w2 == setDwarfTarget(w1, m,
              RandomOffset(w1.dw[f].x, r.ux, BLUE_STRATEGY.maxGuardRange),
              RandomOffset(w1.dw[f].y, r.uy, BLUE_STRATEGY.maxGuardRange))
      w3 == emit(w2, Ev("female_guarded", m, f, TRUE, 0))
  IN  IF Closer(w3.dw, m, f, BLUE_STRATEGY.guardDistance) /\ r.chance
      THEN attemptMating(w3, m, f, r.success)
      ELSE w3

\* faulty variant: BlueStrategy.execute that leaves the timer alone when no
\* female is available
MutBlueExecuteKeepsTimerWhenNoFemale(w, m, r) ==
  LET availableFemales == getAvailableFemales(w)
  IN  IF Len(availableFemales) = 0
      THEN [w EXCEPT !.dw[m].guardedFemale = null]
      ELSE setMateSeekingTimer(
             guardFemale(w, m, selectRandomFemale(availableFemales, r.pick), r),
             m, BLUE_STRATEGY.cooldown)

\* BlueStrategy.execute(male)
BlueExecute(w, m, r) ==
  LET availableFemales == getAvailableFemales(w)
  IN  IF Len(availableFemales) = 0
      THEN setMateSeekingTimer([w EXCEPT !.dw[m].guardedFemale = null],
                               m, BLUE_STRATEGY.cooldown)
      ELSE setMateSeekingTimer(
             guardFemale(w, m, selectRandomFemale(availableFemales, r.pick), r),
             m, BLUE_STRATEGY.cooldown)

\* ---------------------------------------------------------- YellowStrategy
\* YellowStrategy.moveToHidingPosition(male, female)
moveToHidingPosition(w, m, f, r) ==
  emit(setDwarfTarget(w, m,
         RandomOffset(w.dw[f].x, r.ux, YELLOW_STRATEGY.hidingRange),
         RandomOffset(w.dw[f].y, r.uy, YELLOW_STRATEGY.hidingRange)),
       Ev("sneaky_attempt", m, f, FALSE, 0))

\* YellowStrategy.sneakyMating(male, female)
sneakyMating(w, m, f, r) ==
  LET guardsNearby ==
        getNearbyMales(w, f, YELLOW_STRATEGY.guardDetectionRadius, m)
      hasGuardsNearby == Len(guardsNearby) > 0
      w1 == emit(w, Ev("sneaky_attempt", m, f, hasGuardsNearby, Len(guardsNearby)))
  IN  IF ~hasGuardsNearby /\ Closer(w1.dw, m, f, YELLOW_STRATEGY.matingDistance)
      THEN IF r.chance THEN attemptMating(w1, m, f, r.success) ELSE w1
      ELSE IF hasGuardsNearby THEN moveToHidingPosition(w1, m, f, r) ELSE w1

\* YellowStrategy.execute(male)
YellowExecute(w, m, r) ==
  LET availableFemales == getAvailableFemales(w)
  IN  IF Len(availableFemales) = 0
      THEN setMateSeekingTimer(w, m, YELLOW_STRATEGY.cooldown)
      ELSE setMateSeekingTimer(
             sneakyMating(w, m, selectRandomFemale(availableFemales, r.pick), r),
             m, YELLOW_STRATEGY.cooldown)

\* --------------------------------------------------------- StrategyFactory
\* StrategyFactory.initializeStrategyProperties(male)
initializeStrategyProperties(w, m) ==
  CASE w.dw[m].reproductionStrategy = "orange" ->
         [w EXCEPT !.dw[m].territoryX = IF @ = undefined THEN w.dw[m].x ELSE @,
                   !.dw[m].territoryY = IF @ = undefined THEN w.dw[m].y ELSE @]
    [] w.dw[m].reproductionStrategy = "blue" ->
         [w EXCEPT !.dw[m].guardedFemale = IF @ = undefined THEN null ELSE @]
    [] OTHER -> w

\* StrategyFactory.assignRandomStrategy(male); u is the strategy draw
assignRandomStrategy(w, m, u) ==
  IF w.dw[m].gender # "male" THEN w
  ELSE LET selectedStrategy == MALE_STRATEGIES[RandomIndex(u, Len(MALE_STRATEGIES))]
           w1 == [w EXCEPT !.dw[m].reproductionStrategy = selectedStrategy]
           w2 == initializeStrategyProperties(w1, m)
       IN  emit(w2, Ev("strategy_assigned", m, null, TRUE, 0))

\* OrangeStrategy / BlueStrategy / YellowStrategy .validateMale(male)
validateMale(a) ==
  CASE a.reproductionStrategy = "orange" ->
         a.territoryX # undefined /\ a.territoryY # undefined
    [] a.reproductionStrategy = "blue" -> a.guardedFemale # undefined
    [] OTHER -> a.reproductionStrategy = "yellow"

\* StrategyFactory.validateStrategy(male)
validateStrategy(a) ==
  IF a.gender # "male" THEN TRUE
  ELSE IF a.reproductionStrategy \notin Range(MALE_STRATEGIES) THEN FALSE
  ELSE validateMale(a)

\* StrategyFactory.executeStrategy(male): throws for a missing or unknown
\* strategy, otherwise runs the matching variant
executeStrategy(w, m, r) ==
  CASE w.dw[m].reproductionStrategy = "orange" -> OrangeExecute(w, m, r)
    [] w.dw[m].reproductionStrategy = "blue" -> BlueExecute(w, m, r)
    [] w.dw[m].reproductionStrategy = "yellow" -> YellowExecute(w, m, r)
    [] OTHER -> [w EXCEPT !.threw = TRUE]

\* --------------------------------------------------------- FemaleSelection
\* an agent whose personality property is undefined
NoPersonality ==
  [agreeableness |-> undefined, openness |-> undefined, neuroticism |-> undefined]

\* FemaleSelection.scoreMate(female, male); u of grain equal steps is the
\* variance draw Math.random()
scoreMateAt(f, m, u, grain) ==
  LET c == FEMALE_SELECTION
      p == f.personality
      s == m.reproductionStrategy
  IN  c.baseScore
      + (IF p.agreeableness > c.agreeableness.threshold /\ s = "blue"
         THEN c.agreeableness.blueBonus ELSE 0)
      + (IF p.agreeableness > c.agreeableness.threshold /\ s = "orange"
         THEN c.agreeableness.orangePenalty ELSE 0)
      + (IF p.openness > c.openness.threshold /\ s = "yellow"
         THEN c.openness.yellowBonus ELSE 0)
      + (IF p.neuroticism < c.neuroticism.threshold /\ s = "orange"
         THEN c.neuroticism.orangeBonus ELSE 0)
      + ((u * c.randomVariance) \div grain)

\* scoreMate with the engine's draws
scoreMate(f, m, u) == scoreMateAt(f, m, u, RandGrain)

RECURSIVE sortByScore(_)
\* scoredMales.sort((a, b) => b.score - a.score): a stable sort
sortByScore(s) ==
  IF Len(s) <= 1 THEN s
  ELSE LET rest == sortByScore(SubSeq(s, 1, Len(s) - 1))
           x == s[Len(s)]
           k == Cardinality({j \in 1..Len(rest) : rest[j].score >= x.score})
       IN  SubSeq(rest, 1, k) \o <<x>> \o SubSeq(rest, k + 1, Len(rest))

\* faulty variant: selectPreferredMale that takes the last of the sorted males
MutSelectPreferredMaleTakesLast(w, f, males, variance) ==
  LET scoredMales ==
        [k \in 1..Len(males) |->
           [male |-> males[k],
            score |-> scoreMate(w.dw[f], w.dw[males[k]], variance[males[k]])]]
      sorted == sortByScore(scoredMales)
  IN  IF Len(sorted) > 0 THEN sorted[Len(sorted)].male ELSE null

\* FemaleSelection.selectPreferredMale(female, males): the males are scored
\* in enumeration order, sorted by descending score, and the head is taken
selectPreferredMale(w, f, males, variance) ==
  LET scoredMales ==
        [k \in 1..Len(males) |->
           [male |-> males[k],
            score |-> scoreMate(w.dw[f], w.dw[males[k]], variance[males[k]])]]
      sorted == sortByScore(scoredMales)
  IN  IF Len(sorted) > 0 THEN sorted[1].male ELSE null

\* faulty variant: attemptMatingWithFemale that goes on when the female is
\* not available
MutAttemptMatingWithFemaleNoPrecondition(w, m, f, roll) ==
  LET w0 == [w EXCEPT !.att = Append(@, Attempt("female", m, f,
                ~(w.dw[f].reproductionCooldown > 0 \/ w.dw[f].isPregnant), roll))]
  IN  IF roll
      THEN emit([w0 EXCEPT !.dw[f].isPregnant = TRUE,
                           !.dw[f].pregnancyTimer = 0,
                           !.dw[f].reproductionCooldown = FEMALE_REPRODUCTION_COOLDOWN,
                           !.dw[m].reproductionCooldown = MALE_REPRODUCTION_COOLDOWN],
                Ev("mating_success", m, f, TRUE, 0))
      ELSE w0

\* FemaleSelection.attemptMatingWithFemale(male, female)
attemptMatingWithFemale(w, m, f, roll) ==
  IF w.dw[f].reproductionCooldown > 0 \/ w.dw[f].isPregnant
  THEN [w EXCEPT !.att = Append(@, Attempt("female", m, f, FALSE, roll))]
  ELSE LET w0 == [w EXCEPT !.att = Append(@, Attempt("female", m, f, TRUE, roll))]
       IN  IF roll
           THEN emit([w0 EXCEPT !.dw[f].isPregnant = TRUE,
                                !.dw[f].pregnancyTimer = 0,
                                !.dw[f].reproductionCooldown = FEMALE_REPRODUCTION_COOLDOWN,
                                !.dw[m].reproductionCooldown = MALE_REPRODUCTION_COOLDOWN],
                     Ev("mating_success", m, f, TRUE, 0))
           ELSE w0

\* did the last attempt recorded in w succeed
lastAttemptSucceeded(w) ==
  /\ Len(w.att) > 0
  /\ w.att[Len(w.att)].available
  /\ w.att[Len(w.att)].roll

\* FemaleSelection.acceptMating(female, male)
acceptMating(w, f, m, roll) ==
  LET w1 == attemptMatingWithFemale(w, m, f, roll)
  IN  IF lastAttemptSucceeded(w1)
      THEN emit(w1, Ev("mate_selected", m, f, TRUE, 0))
      ELSE emit(w1, Ev("mate_rejected", m, f, FALSE, 0))

\* FemaleSelection.execute(female); scoreMate reads female.personality.*, a
\* TypeError for a female that carries no personality object
FemaleExecute(w, f, r) ==
  IF w.dw[f].isPregnant THEN w
  ELSE LET nearbyMales ==
             getNearbyMalesForFemale(w, f, FEMALE_SELECTION.proximityRadius)
       IN  IF Len(nearbyMales) > 0 /\ w.dw[f].personality = NoPersonality
           THEN [w EXCEPT !.threw = TRUE]
           ELSE IF Len(nearbyMales) > 0
           THEN LET preferredMale == selectPreferredMale(w, f, nearbyMales, r.variance)
                    w1 == emit(w, Ev("female_evaluation", preferredMale, f, TRUE,
                                     Len(nearbyMales)))
                IN  IF r.chance THEN acceptMating(w1, f, preferredMale, r.success)
                    ELSE w1
           ELSE w

\* ------------------------------------------------------ ReproductionSystem
\* ReproductionSystem.canParticipateInReproduction(dwarf)
canParticipateInReproduction(a) ==
  a.isAdult /\ a.reproductionCooldown # undefined /\ a.reproductionCooldown <= 0

\* faulty variant: handleMaleReproductiveBehavior that assigns a strategy only
\* where none is set and does not validate the one it finds
MutHandleMaleWithoutValidation(w, m, r) ==
  LET w1 == IF w.dw[m].reproductionStrategy = "undefined"
            THEN assignRandomStrategy(w, m, r.strat) ELSE w
  IN  executeStrategy(w1, m, r)

\* ReproductionSystem.handleMaleReproductiveBehavior(male)
handleMaleReproductiveBehavior(w, m, r) ==
  LET w1 == IF w.dw[m].reproductionStrategy = "undefined"
            THEN assignRandomStrategy(w, m, r.strat) ELSE w
      w2 == IF ~validateStrategy(w1.dw[m])
            THEN assignRandomStrategy(w1, m, r.strat2) ELSE w1
  IN  executeStrategy(w2, m, r)

\* ReproductionSystem.handleFemaleReproductiveBehavior(female)
handleFemaleReproductiveBehavior(w, f, r) == FemaleExecute(w, f, r)

\* faulty variant: updateReproductionBehavior without its try/catch
MutUpdateReproductionBehaviorNoCatch(w, i, r) ==
  IF ~canParticipateInReproduction(w.dw[i]) THEN w
  ELSE IF /\ w.dw[i].gender = "male"
          /\ w.dw[i].mateSeekingTimer # undefined
          /\ w.dw[i].mateSeekingTimer <= 0
       THEN handleMaleReproductiveBehavior(w, i, r)
       ELSE IF w.dw[i].gender = "female" /\ ~w.dw[i].isPregnant
       THEN handleFemaleReproductiveBehavior(w, i, r)
       ELSE w

\* ReproductionSystem.updateReproductionBehavior(dwarf)
updateReproductionBehavior(w, i, r) ==
  IF ~canParticipateInReproduction(w.dw[i]) THEN w
  ELSE LET w1 ==
             IF /\ w.dw[i].gender = "male"
                /\ w.dw[i].mateSeekingTimer # undefined
                /\ w.dw[i].mateSeekingTimer <= 0
             THEN handleMaleReproductiveBehavior(w, i, r)
             ELSE IF w.dw[i].gender = "female" /\ ~w.dw[i].isPregnant
             THEN handleFemaleReproductiveBehavior(w, i, r)
             ELSE w
       IN  IF w1.threw
           THEN [w1 EXCEPT !.threw = FALSE,
                           !.dw[i].reproductionCooldown = FailSafeCooldown]
           ELSE w1

\* faulty variant: initializeReproductionTraits that assigns no strategy
MutInitializeTraitsWithoutStrategy(w, i, u) ==
  emit([w EXCEPT
          !.dw[i].pregnancyTimer = IF @ = undefined THEN 0 ELSE @,
          !.dw[i].reproductionCooldown = IF @ = undefined THEN 0 ELSE @,
          !.dw[i].mateSeekingTimer = IF @ = undefined THEN 0 ELSE @],
       Ev("dwarf_reproduction_initialized", i, null, TRUE, 0))

\* ReproductionSystem.initializeReproductionTraits(dwarf): the reproduction
\* fields are set only where undefined; a male's strategy is assigned anew.
\* isPregnant is only ever read for its truthiness, so undefined and false
\* are one value here.
initializeReproductionTraits(w, i, u) ==
  LET w1 == IF w.dw[i].gender = "male" THEN assignRandomStrategy(w, i, u) ELSE w
      w2 == [w1 EXCEPT
               !.dw[i].pregnancyTimer = IF @ = undefined THEN 0 ELSE @,
               !.dw[i].reproductionCooldown = IF @ = undefined THEN 0 ELSE @,
               !.dw[i].mateSeekingTimer = IF @ = undefined THEN 0 ELSE @]
  IN  emit(w2, Ev("dwarf_reproduction_initialized", i, null, TRUE, 0))

\* -------------------------------------------------------- PregnancyManager
Profiles ==
  { [agreeableness |-> 80, openness |-> 50, neuroticism |-> 90],
    [agreeableness |-> 50, openness |-> 80, neuroticism |-> 30] }

\* an id not yet holding an agent object; combatStats tells whether the agent
\* carries the combatStats object, whose entries follow from its class
Blank ==
  [gender |-> "female", isAdult |-> FALSE, x |-> 0, y |-> 0,
   targetX |-> 0, targetY |-> 0, task |-> "idle", workTimer |-> 0,
   personality |-> [agreeableness |-> 80, openness |-> 50, neuroticism |-> 90],
   reproductionStrategy |-> "undefined",
   territoryX |-> undefined, territoryY |-> undefined,
   guardedFemale |-> undefined,
   isPregnant |-> FALSE, pregnancyTimer |-> undefined,
   reproductionCooldown |-> undefined, mateSeekingTimer |-> undefined,
   class |-> "undefined", age |-> 0,
   maxLifespan |-> undefined, maxHealth |-> undefined, health |-> undefined,
   combatStats |-> FALSE,
   attackCooldown |-> undefined, isInCombat |-> FALSE,
   combatTarget |-> undefined, lastAttacker |-> undefined, isDead |-> FALSE]

\* WorldInterface.createDwarf(x, y, null, isAdult): new Dwarf(...) of the host,
\* which draws the gender and the personality; throws when the host defines
\* no Dwarf constructor
createDwarf(w, id, x, y, isAdult, b) ==
  IF ~w.DwarfDefined THEN [w EXCEPT !.threw = TRUE]
  ELSE [w EXCEPT !.dw[id] =
          [Blank EXCEPT !.gender = b.gender, !.isAdult = isAdult,
                        !.x = x, !.y = y, !.targetX = x, !.targetY = y,
                        !.personality = b.personality]]

\* WorldInterface.addDwarf(dwarf)
addDwarf(w, id) == [w EXCEPT !.pop = Append(@, id)]

\* PregnancyManager.giveBirth(mother); b holds the newborn's random draws
giveBirth(w, mother, b) ==
  IF ~w.dw[mother].isPregnant THEN w
  ELSE LET baby == Len(w.pop) + 1
           w1 == [w EXCEPT
                    !.dw[mother].isPregnant = FALSE,
                    !.dw[mother].pregnancyTimer = 0,
                    !.dw[mother].reproductionCooldown = FEMALE_REPRODUCTION_COOLDOWN]
           w2 == createDwarf(w1, baby,
                   RandomOffset(w1.dw[mother].x, b.ux, SPATIAL.babySpawnRadius),
                   RandomOffset(w1.dw[mother].y, b.uy, SPATIAL.babySpawnRadius),
                   FALSE, b)
       IN  IF w2.threw THEN w2
           ELSE emit(addDwarf(initializeReproductionTraits(w2, baby, b.strat), baby),
                     Ev("birth", mother, baby, TRUE, w2.dw[mother].pregnancyTimer))

\* faulty variant: updatePregnancy with the birth one tick early
MutUpdatePregnancyBirthOneTickEarly(w, f, b) ==
  IF ~w.dw[f].isPregnant THEN w
  ELSE LET w1 == [w EXCEPT !.dw[f].pregnancyTimer = @ + 1]
       IN  IF w1.dw[f].pregnancyTimer >= PREGNANCY_DURATION - 1
           THEN giveBirth(w1, f, b)
           ELSE w1

\* PregnancyManager.updatePregnancy(female)
updatePregnancy(w, f, b) ==
  IF ~w.dw[f].isPregnant THEN w
  ELSE LET w1 == [w EXCEPT !.dw[f].pregnancyTimer = @ + 1]
       IN  IF w1.dw[f].pregnancyTimer >= PREGNANCY_DURATION
           THEN giveBirth(w1, f, b)
           ELSE w1

\* PregnancyManager.updatePregnancies(): for (const dwarf of allDwarfs) over the
\* live array, so a newborn appended during the loop is visited too; an
\* exception leaves the loop
RECURSIVE updatePregnanciesFrom(_, _, _)
updatePregnanciesFrom(w, k, draws) ==
  IF k > Len(w.pop) \/ w.threw THEN w
  ELSE updatePregnanciesFrom(
         IF w.dw[w.pop[k]].isPregnant
         THEN updatePregnancy(w, w.pop[k], draws[w.pop[k]])
         ELSE w,
         k + 1, draws)

updatePregnancies(w, draws) == updatePregnanciesFrom(w, 1, draws)

\* ----------------------------------------------------- ReproductionEventBus
\* this.maxHistorySize
maxHistorySize == 1000

EventTypes == {"birth", "mating_success"}

\* the host's handler functions: f returns; g throws; u unsubscribes f from
\* the type of the event it is handed, and returns
Callbacks == {"f", "g", "u"}

\* the bus after its constructor; published and subscribed count the emit and
\* subscribe calls, and stand for the identity of an event object and of a
\* listener object; handles are the unsubscribe closures handed out so far;
\* invoked, threw and last describe the last call
NewBus ==
  [listeners |-> [t \in EventTypes |-> <<>>],
   eventHistory |-> <<>>,
   published |-> 0, subscribed |-> 0, handles |-> {},
   invoked |-> <<>>, threw |-> FALSE, calls |-> 0,
   last |-> [op |-> "new", eventType |-> "", callback |-> "", sub |-> 0]]

RECURSIVE sortByPriority(_)
\* listeners.sort((a, b) => b.priority - a.priority): a stable sort
sortByPriority(s) ==
  IF Len(s) <= 1 THEN s
  ELSE LET rest == sortByPriority(SubSeq(s, 1, Len(s) - 1))
           x == s[Len(s)]
           k == Cardinality({j \in 1..Len(rest) : rest[j].priority >= x.priority})
       IN  SubSeq(rest, 1, k) \o <<x>> \o SubSeq(rest, k + 1, Len(rest))

\* faulty variant: subscribe that leaves the listeners in subscription order
MutSubscribeWithoutSort(b, eventType, callback, options) ==
  [b EXCEPT !.subscribed = @ + 1,
            !.listeners[eventType] =
               Append(@, [callback |-> callback, once |-> options.once,
                          priority |-> options.priority, sub |-> b.subscribed + 1])]

\* ReproductionEventBus.subscribe(eventType, callback, options)
subscribe(b, eventType, callback, options) ==
  LET listener == [callback |-> callback, once |-> options.once,
                   priority |-> options.priority, sub |-> b.subscribed + 1]
  IN  [b EXCEPT !.subscribed = @ + 1,
                !.listeners[eventType] = sortByPriority(Append(@, listener))]

\* ReproductionEventBus.unsubscribe(eventType, callback): findIndex + splice
unsubscribe(b, eventType, callback) ==
  LET listeners == b.listeners[eventType]
      found == {k \in 1..Len(listeners) : listeners[k].callback = callback}
  IN  IF found = {} THEN b
      ELSE LET index == CHOOSE k \in found : \A j \in found : k <= j
           IN  [b EXCEPT !.listeners[eventType] =
                  SubSeq(listeners, 1, index - 1)
                    \o SubSeq(listeners, index + 1, Len(listeners))]

\* faulty variant: _addToHistory that drops the newest event when full
MutAddToHistoryEvictsNewest(b, eventObject) ==
  LET pushed == Append(b.eventHistory, eventObject)
  IN  [b EXCEPT !.eventHistory =
         IF Len(pushed) > maxHistorySize
         THEN SubSeq(pushed, 1, Len(pushed) - 1) ELSE pushed]

\* ReproductionEventBus._addToHistory(eventObject)
addToHistory(b, eventObject) ==
  LET pushed == Append(b.eventHistory, eventObject)
  IN  [b EXCEPT !.eventHistory =
         IF Len(pushed) > maxHistorySize THEN Tail(pushed) ELSE pushed]

\* listener.callback(eventObject) followed by the removal of a one-time
\* listener; a handler that throws skips the removal
invoke(b, eventType, listener) ==
  LET b1 == [b EXCEPT !.invoked = Append(@, listener)]
      b2 == IF listener.callback = "u" THEN unsubscribe(b1, eventType, "f") ELSE b1
  IN  IF listener.callback = "g" THEN b1
      ELSE IF listener.once THEN unsubscribe(b2, eventType, listener.callback)
      ELSE b2

RECURSIVE MutDeliverWithoutCatch(_, _, _, _)
\* faulty variant: the delivery loop without its try/catch
MutDeliverWithoutCatch(b, eventType, listenersCopy, k) ==
  IF k > Len(listenersCopy) THEN b
  ELSE IF listenersCopy[k].callback = "g"
  THEN [invoke(b, eventType, listenersCopy[k]) EXCEPT !.threw = TRUE]
  ELSE MutDeliverWithoutCatch(invoke(b, eventType, listenersCopy[k]),
                              eventType, listenersCopy, k + 1)

RECURSIVE deliver(_, _, _, _)
\* for (const listener of listenersCopy) { try { ... } catch (error) { ... } }
deliver(b, eventType, listenersCopy, k) ==
  IF k > Len(listenersCopy) THEN b
  ELSE deliver(invoke(b, eventType, listenersCopy[k]), eventType, listenersCopy, k + 1)

\* ReproductionEventBus.emit(eventType, eventData)
emitEvent(b, eventType) ==
  LET eventObject == [type |-> eventType, n |-> b.published + 1]
      b1 == addToHistory([b EXCEPT !.published = @ + 1, !.invoked = <<>>,
                                   !.threw = FALSE],
                         eventObject)
  IN  IF Len(b1.listeners[eventType]) = 0 THEN b1
      ELSE deliver(b1, eventType, b1.listeners[eventType], 1)

\* ------------------------------------------------- operations on the state
\* the engine's world as an operation finds it
World ==
  [dw |-> dw, pop |-> dwarfs, ev |-> <<>>, att |-> <<>>, threw |-> FALSE,
   DwarfDefined |-> DwarfDefined, timeouts |-> timeouts, hits |-> <<>>,
   deaths |-> <<>>]

Op(name, who, other, threw) ==
  [op |-> name, who |-> who, other |-> other, threw |-> threw]

\* the state an operation leaves behind
Commit(w, op) ==
  /\ dw' = w.dw
  /\ dwarfs' = w.pop
  /\ emitted' = w.ev
  /\ calls' = w.att
  /\ last' = op
  /\ timeouts' = w.timeouts
  /\ attacks' = w.hits
  /\ deathLog' = w.deaths
  /\ UNCHANGED <<DwarfDefined, bus, applied>>

AdultMales == {i \in Range(dwarfs) : dw[i].isAdult /\ dw[i].gender = "male"}
AdultFemales == {i \in Range(dwarfs) : dw[i].isAdult /\ dw[i].gender = "female"}

NoVariance == [i \in Ids |-> 0]

\* the random numbers one updateReproductionBehavior(i) can draw; a draw the
\* call cannot consume is held at its first value
ReproDraws(i) ==
  IF dw[i].gender = "male"
  THEN { [pick |-> pick, chance |-> chance, success |-> success,
          displaced |-> displaced, ux |-> ux, uy |-> uy,
          strat |-> strat, strat2 |-> strat2, variance |-> NoVariance] :
           pick \in 0..(IF Len(getAvailableFemales(World)) > 1
                        THEN Len(getAvailableFemales(World)) - 1 ELSE 0),
           chance \in BOOLEAN, success \in BOOLEAN,
           displaced \in SUBSET (AdultMales \ {i}),
           ux \in Rand, uy \in Rand,
           strat \in (IF dw[i].reproductionStrategy = "undefined"
                      THEN 0..(Len(MALE_STRATEGIES) - 1) ELSE {0}),
           strat2 \in (IF dw[i].reproductionStrategy # "undefined"
                          /\ ~validateStrategy(dw[i])
                       THEN 0..(Len(MALE_STRATEGIES) - 1) ELSE {0}) }
  ELSE { [pick |-> 0, chance |-> chance, success |-> success,
          displaced |-> {}, ux |-> 0, uy |-> 0, strat |-> 0, strat2 |-> 0,
          variance |-> [j \in Ids |-> IF j \in AdultMales THEN v[j] ELSE 0]] :
           chance \in BOOLEAN, success \in BOOLEAN,
           v \in [AdultMales -> Rand] }

\* the host's per-agent call: game.reproductionSystem.updateReproductionBehavior(dwarf)
UpdateReproductionBehavior(i) ==
  /\ ticks < MaxTicks
  /\ i \in Range(dwarfs)
  /\ \E r \in ReproDraws(i) :
       LET w == updateReproductionBehavior(World, i, r)
       IN  Commit(w, Op("updateReproductionBehavior", i, null, w.threw))
  /\ ticks' = ticks + 1

\* a direct call of BaseStrategy.attemptMating(male, female)
AttemptMating(m, f) ==
  /\ ticks < MaxTicks
  /\ m \in AdultMales /\ f \in AdultFemales
  /\ \E roll \in BOOLEAN :
       Commit(attemptMating(World, m, f, roll),
              Op("attemptMating", m, f, FALSE))
  /\ ticks' = ticks + 1

\* a direct call of FemaleSelection.attemptMatingWithFemale(male, female)
AttemptMatingWithFemale(m, f) ==
  /\ ticks < MaxTicks
  /\ m \in AdultMales /\ f \in AdultFemales
  /\ \E roll \in BOOLEAN :
       Commit(attemptMatingWithFemale(World, m, f, roll),
              Op("attemptMatingWithFemale", m, f, FALSE))
  /\ ticks' = ticks + 1

\* the females whose gestation completes at the next gestation tick
Due ==
  {i \in Range(dwarfs) :
     dw[i].isPregnant /\ dw[i].pregnancyTimer + 1 >= PREGNANCY_DURATION}

\* what the host's Dwarf constructor and the strategy assignment draw for a newborn
BabyDraws ==
  { [gender |-> g, personality |-> p, ux |-> ux, uy |-> uy, strat |-> strat] :
      g \in {"male", "female"}, p \in Profiles, ux \in Rand, uy \in Rand,
      strat \in 0..(Len(MALE_STRATEGIES) - 1) }

NoBaby ==
  [gender |-> "female",
   personality |-> [agreeableness |-> 80, openness |-> 50, neuroticism |-> 90],
   ux |-> 0, uy |-> 0, strat |-> 0]

\* the host's per-tick call: game.reproductionSystem.updatePregnancies()
UpdatePregnancies ==
  /\ ticks < MaxTicks
  /\ Len(dwarfs) + Cardinality(Due) <= MaxAgents
  /\ \E d \in [Due -> {b \in BabyDraws : b.gender = "male" \/ b.strat = 0}] :
       LET draws == [i \in Ids |-> IF i \in Due THEN d[i] ELSE NoBaby]
           w == updatePregnancies(World, draws)
       IN  Commit(w, Op("updatePregnancies", null, null, w.threw))
  /\ ticks' = ticks + 1

\* ------------------------------------------------ reproduction: the system
\* an adult male as initializeReproductionTraits / assignRandomStrategy leave
\* him ("undefined": a male no strategy was assigned to yet)
Male(strategy, x, y, cooldown, timer) ==
  [Blank EXCEPT
     !.gender = "male", !.isAdult = TRUE,
     !.x = x, !.y = y, !.targetX = x, !.targetY = y,
     !.reproductionStrategy = strategy,
     !.territoryX = IF strategy = "orange" THEN x ELSE undefined,
     !.territoryY = IF strategy = "orange" THEN y ELSE undefined,
     !.guardedFemale = IF strategy = "blue" THEN null ELSE undefined,
     !.pregnancyTimer = 0, !.reproductionCooldown = cooldown,
     !.mateSeekingTimer = timer]

\* an adult female as initializeReproductionTraits and the mating routine leave her
Female(x, y, personality, isPregnant, pregnancyTimer, cooldown) ==
  [Blank EXCEPT
     !.gender = "female", !.isAdult = TRUE,
     !.x = x, !.y = y, !.targetX = x, !.targetY = y,
     !.personality = personality,
     !.isPregnant = isPregnant, !.pregnancyTimer = pregnancyTimer,
     !.reproductionCooldown = cooldown, !.mateSeekingTimer = 0]

NearTerm == PREGNANCY_DURATION - 2

\* agent 1: a male ready to seek a mate, 10, 45 or 90 units from agent 2
FirstMales ==
  { Male(s, p[1], p[2], 0, 0) :
      s \in Range(MALE_STRATEGIES),
      p \in {<<8 * PosScale, 6 * PosScale>>, <<45 * PosScale, 0>>,
             <<90 * PosScale, 0>>} }

\* agent 2: a female at the origin: available, pregnant near term, or cooling down
FirstFemales ==
  { Female(0, 0, p, FALSE, 0, 0) : p \in Profiles }
  \cup
  { Female(0, 0, CHOOSE p \in Profiles : p.openness > 70, st[1], st[2], st[3]) :
      st \in {<<TRUE, NearTerm, FEMALE_REPRODUCTION_COOLDOWN>>,
              <<FALSE, 0, FEMALE_REPRODUCTION_COOLDOWN>>} }

\* agent 3, when present: a rival male near agent 2, possibly without a
\* strategy yet or on cooldown, or a second female one tick from term
Thirds ==
  { Male("blue", 0, 10 * PosScale, 0, 0),
    Male("undefined", 0, 10 * PosScale, 0, 0),
    Male("orange", 0, 10 * PosScale, MALE_REPRODUCTION_COOLDOWN, 0),
    Female(10 * PosScale, 0, CHOOSE p \in Profiles : p.openness > 70,
           TRUE, NearTerm + 1, FEMALE_REPRODUCTION_COOLDOWN) }

InitRepro ==
  /\ \E a \in FirstMales, b \in FirstFemales :
       \/ /\ dwarfs = <<1, 2>>
          /\ dw = [i \in Ids |-> IF i = 1 THEN a ELSE IF i = 2 THEN b ELSE Blank]
       \/ \E c \in Thirds :
            /\ dwarfs = <<1, 2, 3>>
            /\ dw = [i \in Ids |-> IF i = 1 THEN a ELSE IF i = 2 THEN b
                                   ELSE IF i = 3 THEN c ELSE Blank]
  /\ emitted = <<>>
  /\ calls = <<>>
  /\ last = Op("init", null, null, FALSE)
  /\ ticks = 0
  /\ DwarfDefined = TRUE
  /\ timeouts = <<>>
  /\ attacks = <<>>
  /\ deathLog = <<>>
  /\ bus = NewBus
  /\ applied = NoCall

NextRepro ==
  \/ \E i \in Ids : UpdateReproductionBehavior(i)
  \/ \E m \in Ids, f \in Ids : AttemptMating(m, f)
  \/ \E m \in Ids, f \in Ids : AttemptMatingWithFemale(m, f)
  \/ UpdatePregnancies

SpecRepro == InitRepro /\ [][NextRepro]_vars

\* ------------------------------------------------- reproduction: the claims
Births(ev, mother) ==
  {k \in 1..Len(ev) : ev[k].type = "birth" /\ ev[k].a = mother}

\* C1: a gestation tick raises a pregnant female's pregnancyTimer by exactly 1;
\* she gives birth in the tick that brings the timer to PREGNANCY_DURATION and
\* in no earlier tick: in that tick she stops being pregnant, her
\* reproductionCooldown becomes 7200 and exactly one new, non-adult agent is
\* added to the population for her.
C1_GestationAndBirth ==
  [][ (last'.op = "updatePregnancies" /\ ticks' = ticks + 1) =>
        /\ \A f \in Range(dwarfs) : dw[f].isPregnant =>
             IF dw[f].pregnancyTimer + 1 >= PREGNANCY_DURATION
             THEN /\ ~dw'[f].isPregnant
                  /\ dw'[f].reproductionCooldown = 7200
                  /\ Cardinality(Births(emitted', f)) = 1
                  /\ \A k \in Births(emitted', f) :
                       /\ emitted'[k].b \notin Range(dwarfs)
                       /\ emitted'[k].b \in Range(dwarfs')
                       /\ ~dw'[emitted'[k].b].isAdult
             ELSE /\ dw'[f].isPregnant
                  /\ dw'[f].pregnancyTimer = dw[f].pregnancyTimer + 1
                  /\ Births(emitted', f) = {}
        /\ Len(dwarfs') = Len(dwarfs) + Cardinality(Due)
        /\ \A k \in 1..Len(dwarfs) : dwarfs'[k] = dwarfs[k] ]_vars

C1_Witness ==
  /\ last.op = "updatePregnancies"
  /\ ticks = 2
  /\ \E k \in 1..Len(emitted) :
       /\ emitted[k].type = "birth"
       /\ emitted[k].a = 2
       /\ emitted[k].b \in Range(dwarfs)
       /\ ~dw[emitted[k].b].isAdult
       /\ ~dw[2].isPregnant
       /\ dw[2].reproductionCooldown = 7200

Succeeded(c) == c.available /\ c.roll

\* C2: after a mating attempt whose precondition held and whose success roll
\* succeeded, made by a male strategy or by female choice, the female is
\* pregnant with pregnancyTimer 0 and reproductionCooldown 7200, the male has
\* reproductionCooldown 3600, and a mating_success event was published.
C2_MatingSuccess ==
  \A k \in 1..Len(calls) : Succeeded(calls[k]) =>
    /\ dw[calls[k].female].isPregnant
    /\ dw[calls[k].female].pregnancyTimer = 0
    /\ dw[calls[k].female].reproductionCooldown = 7200
    /\ dw[calls[k].male].reproductionCooldown = 3600
    /\ \E e \in 1..Len(emitted) :
         /\ emitted[e].type = "mating_success"
         /\ emitted[e].a = calls[k].male
         /\ emitted[e].b = calls[k].female

C2_Witness ==
  /\ last.op = "updateReproductionBehavior"
  /\ dw[last.who].gender = "female"
  /\ Len(calls) = 1
  /\ calls[1].by = "female"
  /\ Succeeded(calls[1])
  /\ dw[last.who].isPregnant

\* C3: a mating attempt that fails, because the female is pregnant or cooling
\* down or because the success roll fails, leaves the female's isPregnant,
\* pregnancyTimer and reproductionCooldown and the male's reproductionCooldown
\* as they were, for male-initiated and female-initiated attempts alike.
C3_FailedAttemptChangesNothing ==
  [][ \A k \in 1..Len(calls') : (ticks' = ticks + 1 /\ ~Succeeded(calls'[k])) =>
        /\ dw'[calls'[k].female].isPregnant = dw[calls'[k].female].isPregnant
        /\ dw'[calls'[k].female].pregnancyTimer = dw[calls'[k].female].pregnancyTimer
        /\ dw'[calls'[k].female].reproductionCooldown
             = dw[calls'[k].female].reproductionCooldown
        /\ dw'[calls'[k].male].reproductionCooldown
             = dw[calls'[k].male].reproductionCooldown ]_vars

C3_Witness ==
  /\ last.op = "attemptMatingWithFemale"
  /\ Len(calls) = 1
  /\ ~calls[1].available
  /\ calls[1].roll
  /\ dw[calls[1].female].isPregnant
  /\ dw[calls[1].female].pregnancyTimer = NearTerm
  /\ dw[calls[1].male].reproductionCooldown = 0

StrategyCooldown(strategy) ==
  CASE strategy = "orange" -> 300
    [] strategy = "blue" -> 240
    [] strategy = "yellow" -> 180

\* C4: when the strategy dispatcher has run for a male (he could participate
\* and his mateSeekingTimer had run out), his mateSeekingTimer equals the
\* cooldown of the strategy that ran: 300 territorial, 240 guardian, 180
\* opportunistic, whatever the variant found and did.
C4_TimerResetByDispatcher ==
  [][ ( /\ last'.op = "updateReproductionBehavior"
        /\ ticks' = ticks + 1
        /\ dw[last'.who].gender = "male"
        /\ canParticipateInReproduction(dw[last'.who])
        /\ dw[last'.who].mateSeekingTimer <= 0 ) =>
        /\ dw'[last'.who].reproductionStrategy \in Range(MALE_STRATEGIES)
        /\ dw'[last'.who].mateSeekingTimer
             = StrategyCooldown(dw'[last'.who].reproductionStrategy) ]_vars

C4_Witness ==
  /\ last.op = "updateReproductionBehavior"
  /\ dw[last.who].gender = "male"
  /\ dw[last.who].reproductionStrategy = "blue"
  /\ dw[last.who].mateSeekingTimer = 240
  /\ getAvailableFemales(World) = <<>>
  /\ calls = <<>>
  /\ ticks = 1

\* one guardian male with both timers at 0 and one available female 10 units away
C5_Scenario ==
  /\ dwarfs = <<1, 2>>
  /\ dw[1].gender = "male" /\ dw[1].isAdult
  /\ dw[1].reproductionStrategy = "blue"
  /\ dw[1].mateSeekingTimer = 0 /\ dw[1].reproductionCooldown = 0
  /\ getAvailableFemales(World) = <<2>>
  /\ Dist2(dw[1], dw[2]) = (10 * PosScale) * (10 * PosScale)

\* C5: from that population, one updateReproductionBehavior of the male in
\* which the mating-chance roll and the success roll both succeed leaves the
\* female pregnant and the male with reproductionCooldown 3600.
C5_GuardianEndToEnd ==
  [][ ( /\ C5_Scenario
        /\ last'.op = "updateReproductionBehavior" /\ last'.who = 1
        /\ ticks' = ticks + 1
        /\ \E r \in ReproDraws(1) :
             /\ r.chance /\ r.success
             /\ dw' = updateReproductionBehavior(World, 1, r).dw ) =>
        /\ dw'[2].isPregnant
        /\ dw'[1].reproductionCooldown = 3600 ]_vars

C5_Witness ==
  /\ last.op = "updateReproductionBehavior" /\ last.who = 1
  /\ ticks = 1
  /\ dwarfs = <<1, 2>>
  /\ dw[1].reproductionStrategy = "blue"
  /\ dw[1].guardedFemale = 2
  /\ dw[1].reproductionCooldown = 3600
  /\ dw[2].isPregnant /\ dw[2].pregnancyTimer = 0
  /\ Dist2(dw[1], dw[2]) = (10 * PosScale) * (10 * PosScale)

\* ===================================================== LifespanCombatSystem
\* Every agent of the vitality specifications drew the same maxLifespan and
\* maxHealth at initializeDwarf.  Health is kept in units of 1 / HealthScale
\* hit point, HealthScale = 60 * Lifespan, which makes the aging damage
\* agingDamage * (age / maxLifespan - 0.7) / 0.3 the integer 10 * age - 7 *
\* Lifespan and the natural healing 0.1 the integer HealthScale / 10.
Lifespan == 20000
MaxHealth == 100
HealthScale == 60 * Lifespan
HP(n) == n * HealthScale

\* this.config of LifespanCombatSystem (defaults); attackCooldown in elevenths
\* of a tick
CooldownScale == 11
CombatConfig ==
  [naturalHealing |-> HealthScale \div 10, baseDamage |-> 15,
   damageVariance |-> 5, attackRange |-> 20,
   attackCooldown |-> 60 * CooldownScale,
   criticalMultiplier10 |-> 15]

\* assignCombatStats(dwarf): attack, defense and speed in tenths
combatStats(class) ==
  CASE class = "fighter" -> [attack |-> 12, defense |-> 11, speed |-> 10]
    [] class = "mage" -> [attack |-> 9, defense |-> 8, speed |-> 11]
    [] class = "archer" -> [attack |-> 10, defense |-> 9, speed |-> 12]
    [] OTHER -> [attack |-> 10, defense |-> 10, speed |-> 10]

\* this.config.minLifespan and this.config.maxLifespan (defaults)
MinLifespan == 18000
MaxLifespan == 36000

\* initializeDwarf(dwarf); r.life and r.vigour are the draws for the lifespan
\* and for the +-10 variation of maxHealth
initializeDwarf(w, d, r) ==
  LET maxHealth == HP(MaxHealth) + (r.vigour * HP(20)) \div RandGrain - HP(10)
  IN  [w EXCEPT
         !.dw[d].maxLifespan =
            MinLifespan + (r.life * (MaxLifespan - MinLifespan)) \div RandGrain,
         !.dw[d].maxHealth = maxHealth,
         !.dw[d].health = maxHealth,
         !.dw[d].attackCooldown = 0,
         !.dw[d].isInCombat = FALSE,
         !.dw[d].combatTarget = null,
         !.dw[d].lastAttacker = null,
         !.dw[d].combatStats = TRUE]

\* calculateDistance(a, b) <= r, r in world units
Within(D, a, b, r) == Dist2(D[a], D[b]) <= (r * PosScale) * (r * PosScale)

\* handleAging(dwarf)
handleAging(w, d) ==
  IF 10 * w.dw[d].age >= 7 * w.dw[d].maxLifespan
  THEN [w EXCEPT !.dw[d].health = @ - (10 * w.dw[d].age - 7 * w.dw[d].maxLifespan)]
  ELSE w

\* handleHealthUpdate(dwarf)
handleHealthUpdate(w, d) ==
  LET a == w.dw[d]
  IN  IF a.health < a.maxHealth /\ ~a.isInCombat /\ 10 * a.health > 3 * a.maxHealth
      THEN [w EXCEPT !.dw[d].health =
              IF a.health + CombatConfig.naturalHealing > a.maxHealth
              THEN a.maxHealth ELSE a.health + CombatConfig.naturalHealing]
      ELSE w

\* isTerritorialDispute(dwarf1, dwarf2)
isTerritorialDispute(a, b) ==
  /\ a.reproductionStrategy = "orange" /\ b.reproductionStrategy = "orange"
  /\ a.gender = "male" /\ b.gender = "male"

\* shouldEngageInCombat(attacker, target); roll is the outcome of the random
\* tests (territorial chance, or random chance and aggression)
shouldEngageInCombat(a, t, roll) ==
  IF a.gender = t.gender /\ ~isTerritorialDispute(a, t) THEN FALSE ELSE roll

\* Math.floor(damage) of performAttack, in hit points
finalDamage(a, t, r) ==
  ( (CombatConfig.baseDamage * RandGrain + r.u * CombatConfig.damageVariance)
      * combatStats(a.class).attack
      * (IF r.crit THEN CombatConfig.criticalMultiplier10 ELSE 10) )
  \div (RandGrain * combatStats(t.class).defense * 10)

Hit(a, t, damage, deferred) ==
  [attacker |-> a, target |-> t, damage |-> damage, deferred |-> deferred]

\* faulty variant: performAttack whose retaliation runs inside the attack
MutPerformAttackRetaliatesAtOnce(w, a, t, r, deferred) ==
  IF w.dw[a].attackCooldown > 0 THEN w
  ELSE LET damage == finalDamage(w.dw[a], w.dw[t], r)
           w1 == [w EXCEPT
                    !.dw[t].health = @ - HP(damage),
                    !.dw[t].lastAttacker = a,
                    !.dw[a].isInCombat = TRUE,
                    !.dw[t].isInCombat = TRUE,
                    !.dw[a].combatTarget = t,
                    !.dw[t].combatTarget = a,
                    !.dw[a].attackCooldown =
                       (CombatConfig.attackCooldown * 10)
                         \div combatStats(w.dw[a].class).speed,
                    !.hits = Append(@, Hit(a, t, damage, deferred))]
       IN  IF w1.dw[t].health > 0 /\ w1.dw[t].attackCooldown = 0 /\ r.ret
           THEN [w1 EXCEPT
                   !.dw[a].health = @ - HP(finalDamage(w1.dw[t], w1.dw[a], r)),
                   !.dw[a].lastAttacker = t,
                   !.dw[t].attackCooldown =
                      (CombatConfig.attackCooldown * 10)
                        \div combatStats(w.dw[t].class).speed,
                   !.hits = Append(@, Hit(t, a, finalDamage(w1.dw[t], w1.dw[a], r), TRUE))]
           ELSE w1

\* faulty variant: performAttack that leaves the attacker's cooldown alone
MutPerformAttackWithoutCooldown(w, a, t, r, deferred) ==
  IF w.dw[a].attackCooldown > 0 THEN w
  ELSE LET damage == finalDamage(w.dw[a], w.dw[t], r)
           w1 == [w EXCEPT
                    !.dw[t].health = @ - HP(damage),
                    !.dw[t].lastAttacker = a,
                    !.dw[a].isInCombat = TRUE,
                    !.dw[t].isInCombat = TRUE,
                    !.dw[a].combatTarget = t,
                    !.dw[t].combatTarget = a,
                    !.hits = Append(@, Hit(a, t, damage, deferred))]
       IN  IF w1.dw[t].health > 0 /\ w1.dw[t].attackCooldown = 0 /\ r.ret
           THEN [w1 EXCEPT !.timeouts = Append(@, [attacker |-> a, target |-> t])]
           ELSE w1

\* performAttack(attacker, target, world); deferred tells a retaliation
\* callback's attack from one made during the attacker's own update; reading
\* attacker.combatStats.attack or target.combatStats.defense is a TypeError
\* for an agent without combatStats
performAttack(w, a, t, r, deferred) ==
  IF w.dw[a].attackCooldown > 0 THEN w
  ELSE IF ~w.dw[a].combatStats \/ ~w.dw[t].combatStats
  THEN [w EXCEPT !.threw = TRUE]
  ELSE LET damage == finalDamage(w.dw[a], w.dw[t], r)
           w1 == [w EXCEPT
                    !.dw[t].health = @ - HP(damage),
                    !.dw[t].lastAttacker = a,
                    !.dw[a].isInCombat = TRUE,
                    !.dw[t].isInCombat = TRUE,
                    !.dw[a].combatTarget = t,
                    !.dw[t].combatTarget = a,
                    !.dw[a].attackCooldown =
                       (CombatConfig.attackCooldown * 10)
                         \div combatStats(w.dw[a].class).speed,
                    !.hits = Append(@, Hit(a, t, damage, deferred))]
       IN  IF w1.dw[t].health > 0 /\ w1.dw[t].attackCooldown = 0 /\ r.ret
           THEN [w1 EXCEPT !.timeouts = Append(@, [attacker |-> a, target |-> t])]
           ELSE w1

\* moveTowardsTarget(dwarf, target), for agents on one horizontal or vertical
\* line, where the unit vector is exact
moveTowardsTarget(w, d, t) ==
  LET dx == w.dw[t].x - w.dw[d].x
      dy == w.dw[t].y - w.dw[d].y
      moveSpeed == (combatStats(w.dw[d].class).speed * PosScale) \div 10
      sgn(v) == IF v > 0 THEN 1 ELSE IF v < 0 THEN -1 ELSE 0
  IN  IF dx = 0 /\ dy = 0 THEN w
      ELSE [w EXCEPT
              !.dw[d].x = IF dy = 0 THEN @ + sgn(dx) * moveSpeed ELSE @,
              !.dw[d].y = IF dx = 0 THEN @ + sgn(dy) * moveSpeed ELSE @,
              !.dw[d].targetX = w.dw[t].x,
              !.dw[d].targetY = w.dw[t].y]

\* handleCombatBehavior(dwarf, world)
handleCombatBehavior(w, d, r) ==
  IF ~w.dw[d].isAdult \/ w.dw[d].attackCooldown > 0 THEN w
  ELSE LET nearbyDwarfs == getNearbyDwarfs(w, d, CombatConfig.attackRange * 2)
           potentialTargets ==
             SelectSeq(nearbyDwarfs, LAMBDA t :
                 /\ w.dw[t].health > 0
                 /\ t # d
                 /\ shouldEngageInCombat(w.dw[d], w.dw[t], r.engage[t]))
       IN  IF Len(potentialTargets) > 0
           THEN LET target == potentialTargets[1]
                IN  IF Within(w.dw, d, target, CombatConfig.attackRange)
                    THEN performAttack(w, d, target, r, FALSE)
                    ELSE IF w.dw[d].combatTarget = target
                    THEN moveTowardsTarget(w, d, target)
                    ELSE w
           ELSE w

Death(d, cause, health, age) ==
  [who |-> d, cause |-> cause, health |-> health, age |-> age]

RECURSIVE clearCombatTargets(_, _, _)
\* world.getAllDwarfs().forEach(...) of handleDeath
clearCombatTargets(w, d, k) ==
  IF k > Len(w.pop) THEN w
  ELSE clearCombatTargets(
         IF w.dw[w.pop[k]].combatTarget = d
         THEN [w EXCEPT !.dw[w.pop[k]].combatTarget = null,
                        !.dw[w.pop[k]].isInCombat = FALSE]
         ELSE w,
         d, k + 1)

\* faulty variant: handleDeath with the two causes exchanged
MutHandleDeathCauseSwapped(w, d) ==
  LET deathCause == IF w.dw[d].health <= 0 THEN "age" ELSE "combat"
      w1 == [w EXCEPT !.deaths =
               Append(@, Death(d, deathCause, w.dw[d].health, w.dw[d].age))]
      w2 == clearCombatTargets(w1, d, 1)
  IN  [w2 EXCEPT !.dw[d].isDead = TRUE, !.dw[d].health = 0]

\* handleDeath(dwarf, world)
handleDeath(w, d) ==
  LET deathCause == IF w.dw[d].health <= 0 THEN "combat" ELSE "age"
      w1 == [w EXCEPT !.deaths =
               Append(@, Death(d, deathCause, w.dw[d].health, w.dw[d].age))]
      w2 == clearCombatTargets(w1, d, 1)
  IN  [w2 EXCEPT !.dw[d].isDead = TRUE, !.dw[d].health = 0]

\* updateDwarf(dwarf, world)
updateDwarf(w, d, r) ==
  IF w.dw[d].health <= 0 THEN w
  ELSE LET w1 == [w EXCEPT !.dw[d].age = @ + 1]
           w2 == handleAging(w1, d)
           w3 == handleHealthUpdate(w2, d)
           w4 == [w3 EXCEPT !.dw[d].attackCooldown =
                    IF @ > 0 THEN @ - CooldownScale ELSE @]
           w5 == handleCombatBehavior(w4, d, r)
       IN  IF w5.threw THEN w5
           ELSE IF w5.dw[d].health <= 0 \/ w5.dw[d].age >= w5.dw[d].maxLifespan
           THEN handleDeath(w5, d)
           ELSE w5

\* the agents d may find worth a roll in shouldEngageInCombat
Opponents(w, d) ==
  {t \in Range(getNearbyDwarfs(w, d, CombatConfig.attackRange * 2)) :
     /\ w.dw[t].health > 0
     /\ (w.dw[t].gender # w.dw[d].gender \/ isTerritorialDispute(w.dw[d], w.dw[t]))}

NoCombatDraw ==
  [engage |-> [t \in Ids |-> FALSE], u |-> 0, crit |-> FALSE, ret |-> FALSE]

AttackDraws ==
  { [engage |-> [t \in Ids |-> FALSE], u |-> u, crit |-> crit, ret |-> ret] :
      u \in Rand, crit \in BOOLEAN, ret \in BOOLEAN }

\* the random numbers one updateDwarf(d) can draw
CombatDraws(w, d) ==
  IF \/ ~w.dw[d].isAdult
     \/ w.dw[d].attackCooldown > CooldownScale
     \/ Opponents(w, d) = {}
  THEN {NoCombatDraw}
  ELSE {NoCombatDraw} \cup
       { [r EXCEPT !.engage = [t \in Ids |-> t \in E]] :
           r \in AttackDraws, E \in (SUBSET Opponents(w, d)) \ {{}} }

\* LifespanCombatSystem.update(dwarfs, world): dwarfs.forEach, each agent's
\* update drawing its own random numbers; the set of worlds the tick can end
\* in. An exception in one agent's update leaves the forEach.
RECURSIVE updateFrom(_, _)
updateFrom(ws, k) ==
  IF \A w \in ws : k > Len(w.pop) THEN ws
  ELSE updateFrom(
         UNION { IF w.threw \/ w.dw[w.pop[k]].isDead THEN {w}
                 ELSE {updateDwarf(w, w.pop[k], r) : r \in CombatDraws(w, w.pop[k])} :
                 w \in ws },
         k + 1)

update(w) == updateFrom({w}, 1)

\* the game loop's per-tick call: lifespanSystem.update(game.dwarfs, world)
Update ==
  /\ ticks < MaxTicks
  /\ \E w \in update(World) : Commit(w, Op("update", null, null, w.threw))
  /\ ticks' = ticks + 1

\* the retaliation callback of performAttack, 10 ms after the attack
retaliate(w, attacker, target, r) ==
  IF w.dw[target].health > 0
     /\ Within(w.dw, attacker, target, CombatConfig.attackRange)
  THEN performAttack(w, target, attacker, r, TRUE)
  ELSE w

\* the event loop runs the oldest pending callback
FireTimeout ==
  /\ Len(timeouts) > 0
  /\ \E r \in AttackDraws :
       LET w == retaliate([World EXCEPT !.timeouts = Tail(@)],
                          Head(timeouts).attacker, Head(timeouts).target, r)
       IN  Commit(w, Op("retaliation", Head(timeouts).target,
                        Head(timeouts).attacker, w.threw))
  /\ UNCHANGED ticks

\* ----------------------------------------------------- vitality: the system
\* initializeDwarf(dwarf), for an agent of the given class, followed by the
\* agent's life so far: its age, health and remaining attack cooldown
Vital(a, class, age, health, attackCooldown) ==
  [a EXCEPT !.class = class, !.age = age,
            !.maxLifespan = Lifespan, !.maxHealth = HP(MaxHealth),
            !.health = health, !.combatStats = TRUE,
            !.attackCooldown = attackCooldown,
            !.isInCombat = FALSE, !.combatTarget = null, !.lastAttacker = null]

Young == 100
Old == (Lifespan * 19) \div 20
Frail == 2 * Lifespan

\* agent 1 at the origin: a territorial or guardian male, young or in the
\* last tick of his life
VitalFirsts(second) ==
  { Vital([Male(s, 0, 0, 0, 0) EXCEPT
             !.guardedFemale = IF s = "blue" /\ second.gender = "female"
                               THEN 2 ELSE @],
          class, age, HP(MaxHealth), 0) :
      s \in {"orange", "blue"}, class \in {"fighter", "mage"},
      age \in {Young, Lifespan - 1} }

\* agent 2, 15 or 30 units away: a territorial male or a female; healthy,
\* wounded, or old and down to a fraction of a hit point
VitalSeconds ==
  { Vital(a, "undefined", st[1], st[2], 0) :
      a \in { Male("orange", x * PosScale, 0, 0, 0) : x \in {15, 30} }
            \cup
            { Female(x * PosScale, 0, CHOOSE p \in Profiles : p.openness > 70,
                     FALSE, 0, 0) : x \in {15, 30} },
      st \in {<<Young, HP(MaxHealth)>>, <<Young, HP(10)>>, <<Old, Frail>>} }

\* agent 3, when present: a female archer 10 units on the other side of agent 1
VitalThirds ==
  { Vital(Female(-10 * PosScale, 0, CHOOSE p \in Profiles : p.openness > 70,
                 FALSE, 0, 0),
          "archer", Young, HP(MaxHealth), 0) }

InitVital ==
  /\ \E b \in VitalSeconds : \E a \in VitalFirsts(b) :
       \/ /\ dwarfs = <<1, 2>>
          /\ dw = [i \in Ids |-> IF i = 1 THEN a ELSE IF i = 2 THEN b ELSE Blank]
       \/ \E c \in VitalThirds :
            /\ dwarfs = <<1, 2, 3>>
            /\ dw = [i \in Ids |-> IF i = 1 THEN a ELSE IF i = 2 THEN b
                                   ELSE IF i = 3 THEN c ELSE Blank]
  /\ emitted = <<>>
  /\ calls = <<>>
  /\ last = Op("init", null, null, FALSE)
  /\ ticks = 0
  /\ DwarfDefined = TRUE
  /\ timeouts = <<>>
  /\ attacks = <<>>
  /\ deathLog = <<>>
  /\ bus = NewBus
  /\ applied = NoCall

NextVital ==
  \/ Update
  \/ FireTimeout

SpecVital == InitVital /\ [][NextVital]_vars

\* ---------------------------------------------------- vitality: the claims
Initialized(a) == a.maxLifespan # undefined
Expired(a) == a.health <= 0 \/ a.age >= a.maxLifespan
Living(a) == ~a.isDead /\ ~Expired(a)

\* C6: an agent whose health is <= 0 or whose age is >= maxLifespan when a
\* vitality update starts (the condition arose in the tick before at the
\* latest, by aging, an attack or a deferred retaliation) is flagged dead,
\* with health 0, when that update ends.
C6_ExpiredIsFlaggedDead ==
  [][ (last'.op = "update" /\ ticks' = ticks + 1) =>
        \A a \in Range(dwarfs) :
          (Initialized(dw[a]) /\ Expired(dw[a])) =>
             (dw'[a].isDead /\ dw'[a].health = 0) ]_vars

\* C7: when an agent that is the combatTarget of another living agent is
\* killed during a vitality update, the other agent, if still living, no
\* longer has it as combatTarget when the update ends.
C7_KilledTargetIsReleased ==
  [][ (last'.op = "update" /\ ticks' = ticks + 1) =>
        \A t \in Range(dwarfs), o \in Range(dwarfs) :
          ( /\ o # t
            /\ Initialized(dw[t]) /\ Initialized(dw[o])
            /\ Living(dw[t]) /\ Living(dw[o])
            /\ dw[o].combatTarget = t
            /\ Expired(dw'[t]) \/ dw'[t].isDead
            /\ Living(dw'[o]) ) =>
             dw'[o].combatTarget # t ]_vars

\* C8: no living agent of the population holds a guardedFemale, combatTarget
\* or lastAttacker reference to an agent that has been flagged dead.
C8_NoReferenceToTheDead ==
  \A d \in Range(dwarfs), o \in Range(dwarfs) :
    (o # d /\ dw[d].isDead /\ ~dw[o].isDead) =>
       /\ dw[o].guardedFemale # d
       /\ dw[o].combatTarget # d
       /\ dw[o].lastAttacker # d

\* C9: after every operation, every initialized agent has
\* 0 <= health <= maxHealth.
C9_HealthWithinBounds ==
  \A a \in Range(dwarfs) :
    Initialized(dw[a]) => (0 <= dw[a].health /\ dw[a].health <= dw[a].maxHealth)

\* C10: a processed death is attributed to combat when the agent's health was
\* <= 0 and its age below maxLifespan, and to age when its age had reached
\* maxLifespan and its health was above 0.
C10_DeathCause ==
  \A k \in 1..Len(deathLog) :
    LET e == deathLog[k]
    IN  /\ (e.health <= 0 /\ e.age < dw[e.who].maxLifespan) => e.cause = "combat"
        /\ (e.age >= dw[e.who].maxLifespan /\ e.health > 0) => e.cause = "age"

C10_Witness ==
  /\ last.op = "update"
  /\ \E j \in 1..Len(deathLog), k \in 1..Len(deathLog) :
       /\ deathLog[j].cause = "combat"
       /\ deathLog[j].health <= 0
       /\ deathLog[j].age < dw[deathLog[j].who].maxLifespan
       /\ dw[deathLog[j].who].isDead
       /\ deathLog[k].cause = "age"
       /\ deathLog[k].health > 0
       /\ deathLog[k].age >= dw[deathLog[k].who].maxLifespan
       /\ dw[deathLog[k].who].isDead

\* C11: a defender's retaliation never runs inside the attack that triggered
\* it: a vitality update resolves no retaliation, only queues it; and when the
\* queued callback runs later it attacks only if the defender's health is
\* above 0, the attacker is within attackRange and the defender's own
\* attackCooldown has run out, and then it hits the attacker once.
C11_RetaliationIsDeferred ==
  [][ /\ (last'.op = "update" /\ ticks' = ticks + 1) =>
           /\ \A k \in 1..Len(attacks') : ~attacks'[k].deferred
           /\ Len(timeouts') <= Len(timeouts) + Len(attacks')
      /\ (last'.op = "retaliation" /\ Len(timeouts) > 0
            /\ timeouts' # timeouts) =>
           /\ Len(attacks') <= 1
           /\ \A k \in 1..Len(attacks') :
                /\ attacks'[k].deferred
                /\ attacks'[k].attacker = Head(timeouts).target
                /\ attacks'[k].target = Head(timeouts).attacker
                /\ dw[Head(timeouts).target].health > 0
                /\ Within(dw, Head(timeouts).attacker, Head(timeouts).target,
                          CombatConfig.attackRange)
                /\ dw[Head(timeouts).target].attackCooldown <= 0 ]_vars

C11_Witness ==
  /\ last.op = "retaliation"
  /\ Len(attacks) = 1
  /\ attacks[1].deferred
  /\ attacks[1].attacker = last.who
  /\ dw[attacks[1].target].lastAttacker = last.who
  /\ dw[last.who].attackCooldown > 0

\* ------------------------------------- reproduction: agents as handed over
\* a direct call of ReproductionSystem.initializeReproductionTraits(dwarf)
InitializeReproductionTraits(i) ==
  /\ ticks < MaxTicks
  /\ i \in Range(dwarfs)
  /\ \E u \in (IF dw[i].gender = "male" THEN 0..(Len(MALE_STRATEGIES) - 1) ELSE {0}) :
       Commit(initializeReproductionTraits(World, i, u),
              Op("initializeReproductionTraits", i, null, FALSE))
  /\ ticks' = ticks + 1

\* a direct call of LifespanCombatSystem.initializeDwarf(dwarf)
InitializeDwarf(i) ==
  /\ ticks < MaxTicks
  /\ i \in Range(dwarfs)
  /\ \E life \in Rand, vigour \in Rand :
       Commit(initializeDwarf(World, i, [life |-> life, vigour |-> vigour]),
              Op("initializeDwarf", i, null, FALSE))
  /\ ticks' = ticks + 1

\* agent 1: a male near agent 2 whose strategy is missing, unknown, lacks the
\* properties its variant validates, or is in order
HandedMales ==
  { Male("undefined", 0, 10 * PosScale, 0, 0),
    Male("red", 0, 10 * PosScale, 0, 0),
    [Male("blue", 0, 10 * PosScale, 0, 0) EXCEPT !.guardedFemale = undefined],
    [Male("orange", 0, 10 * PosScale, 0, 0) EXCEPT !.territoryX = undefined,
                                                   !.territoryY = undefined],
    Male("yellow", 0, 10 * PosScale, 0, 0) }

\* agent 2: an available female at the origin, with or without a personality
HandedFemales ==
  { Female(0, 0, p, FALSE, 0, 0) :
      p \in {CHOOSE q \in Profiles : q.openness > 70, NoPersonality} }

\* agent 3: a male in order, or an adult male no initializer has seen
HandedThirds ==
  { Male("orange", 10 * PosScale, 0, 0, 0),
    [Blank EXCEPT !.gender = "male", !.isAdult = TRUE] }

InitHanded ==
  /\ \E a \in HandedMales, b \in HandedFemales, c \in HandedThirds :
       /\ dwarfs = <<1, 2, 3>>
       /\ dw = [i \in Ids |-> IF i = 1 THEN a ELSE IF i = 2 THEN b
                              ELSE IF i = 3 THEN c ELSE Blank]
  /\ emitted = <<>>
  /\ calls = <<>>
  /\ last = Op("init", null, null, FALSE)
  /\ ticks = 0
  /\ DwarfDefined = TRUE
  /\ timeouts = <<>>
  /\ attacks = <<>>
  /\ deathLog = <<>>
  /\ bus = NewBus
  /\ applied = NoCall

NextHanded ==
  \/ \E i \in Ids : UpdateReproductionBehavior(i)
  \/ \E i \in Ids : InitializeReproductionTraits(i)
  \/ \E i \in Ids : InitializeDwarf(i)

SpecHanded == InitHanded /\ [][NextHanded]_vars

\* the call updateReproductionBehavior(i) raises an exception inside its try
\* block: a female free to mate, without a personality, with a male in reach
C12_Raises(i) ==
  /\ i \in Range(dwarfs)
  /\ canParticipateInReproduction(dw[i])
  /\ dw[i].gender = "female" /\ ~dw[i].isPregnant
  /\ dw[i].personality = NoPersonality
  /\ Len(getNearbyMalesForFemale(World, i, FEMALE_SELECTION.proximityRadius)) > 0

\* C12: an exception raised inside updateReproductionBehavior does not leave
\* the call: the call returns normally, the agent it was called for gets a
\* reproductionCooldown of 600 and nothing else of any agent changes, so the
\* calls for the other agents go on as usual.
C12_ExceptionIsContained ==
  [][ \A i \in Ids :
        (last'.op = "updateReproductionBehavior" /\ last'.who = i
           /\ ticks' = ticks + 1) =>
          /\ ~last'.threw
          /\ C12_Raises(i) =>
               /\ dw'[i] = [dw[i] EXCEPT !.reproductionCooldown = FailSafeCooldown]
               /\ \A j \in Ids \ {i} : dw'[j] = dw[j]
               /\ dwarfs' = dwarfs ]_vars

\* after one agent's call ended in the catch block, the call for another agent
\* ran its strategy
C12_Witness ==
  /\ last.op = "updateReproductionBehavior" /\ ~last.threw
  /\ dw[last.who].gender = "male" /\ dw[last.who].mateSeekingTimer > 0
  /\ \E i \in Range(dwarfs) \ {last.who} :
       /\ dw[i].personality = NoPersonality
       /\ dw[i].reproductionCooldown = FailSafeCooldown

\* --------------------------------------- vitality: agents without combatStats
\* agent 1 at the origin: an initialized territorial male
StatlessFirsts ==
  { Vital(Male("orange", 0, 0, 0, 0), class, Young, HP(MaxHealth), 0) :
      class \in {"fighter", "mage"} }

\* agent 2, 15 units away: a territorial male with lifespan and health, with
\* or without the combatStats object
StatlessSeconds ==
  { [Vital(Male("orange", 15 * PosScale, 0, 0, 0), "undefined", Young, h, 0)
       EXCEPT !.combatStats = c] :
      h \in {HP(MaxHealth), HP(50)}, c \in BOOLEAN }

\* agent 3: an initialized female out of reach, young or in the aging zone
StatlessThirds ==
  { Vital(Female(0, 90 * PosScale, CHOOSE p \in Profiles : p.openness > 70,
                 FALSE, 0, 0),
          "archer", age, HP(MaxHealth), 0) : age \in {Young, Old} }

InitStatless ==
  /\ \E a \in StatlessFirsts, b \in StatlessSeconds, c \in StatlessThirds :
       /\ dwarfs = <<1, 2, 3>>
       /\ dw = [i \in Ids |-> IF i = 1 THEN a ELSE IF i = 2 THEN b
                              ELSE IF i = 3 THEN c ELSE Blank]
  /\ emitted = <<>>
  /\ calls = <<>>
  /\ last = Op("init", null, null, FALSE)
  /\ ticks = 0
  /\ DwarfDefined = TRUE
  /\ timeouts = <<>>
  /\ attacks = <<>>
  /\ deathLog = <<>>
  /\ bus = NewBus
  /\ applied = NoCall

NextStatless ==
  \/ Update
  \/ FireTimeout

SpecStatless == InitStatless /\ [][NextStatless]_vars

\* C13: one agent's failing update does not stop the tick: update returns
\* normally, and every agent that was alive when the tick began and was not
\* hit during it has been aged by one tick when it ends.
C13_FailureSkipsNoAgent ==
  [][ (last'.op = "update" /\ ticks' = ticks + 1) =>
        /\ ~last'.threw
        /\ \A i \in Range(dwarfs) :
             ( /\ ~dw[i].isDead /\ dw[i].health > 0
               /\ \A k \in 1..Len(attacks') : attacks'[k].target # i ) =>
               dw'[i].age = dw[i].age + 1 ]_vars

\* C14: a male who reaches handleMaleReproductiveBehavior with a missing or
\* unknown strategy, or with one his variant's validateMale rejects, leaves
\* the call with a valid strategy of the three, and that strategy was executed
\* in the same call (his mateSeekingTimer is its cooldown); no exception was
\* raised, so the fail-safe cooldown of 600 was not applied.
C14_StrategyRepairedAndExecuted ==
  [][ \A m \in Ids :
        ( /\ last'.op = "updateReproductionBehavior" /\ last'.who = m
          /\ ticks' = ticks + 1
          /\ dw[m].gender = "male"
          /\ canParticipateInReproduction(dw[m])
          /\ dw[m].mateSeekingTimer # undefined /\ dw[m].mateSeekingTimer <= 0
          /\ ~validateStrategy(dw[m]) ) =>
          /\ ~last'.threw
          /\ dw'[m].reproductionStrategy \in Range(MALE_STRATEGIES)
          /\ validateStrategy(dw'[m])
          /\ dw'[m].mateSeekingTimer = StrategyCooldown(dw'[m].reproductionStrategy)
          /\ dw'[m].reproductionCooldown # FailSafeCooldown
          /\ \E k \in 1..Len(emitted') :
               emitted'[k].type = "strategy_assigned" /\ emitted'[k].a = m ]_vars

\* a male handed over with the unknown strategy "red" or with a variant's
\* properties missing was given a strategy and mated with it in the same call
C14_Witness ==
  /\ last.op = "updateReproductionBehavior" /\ ticks = 1
  /\ dw[last.who].gender = "male"
  /\ \E k \in 1..Len(emitted) :
       emitted[k].type = "strategy_assigned" /\ emitted[k].a = last.who
  /\ \E k \in 1..Len(emitted) :
       emitted[k].type = "mating_success" /\ emitted[k].a = last.who
  /\ validateStrategy(dw[last.who])
  /\ dw[last.who].reproductionCooldown = MALE_REPRODUCTION_COOLDOWN

\* the reproduction fields of an agent
ReproductiveState(a) ==
  <<a.reproductionStrategy, a.territoryX, a.territoryY, a.guardedFemale,
    a.isPregnant, a.pregnancyTimer, a.reproductionCooldown, a.mateSeekingTimer>>

\* the lifespan, health and combat fields initializeDwarf writes
VitalState(a) ==
  <<a.maxLifespan, a.maxHealth, a.health, a.combatStats, a.attackCooldown>>

\* C15: the two initializers are idempotent: initializeReproductionTraits on
\* an agent whose reproduction fields are set (a male with a valid strategy)
\* leaves those fields as they are, and initializeDwarf on an agent whose
\* lifespan and health are set leaves maxLifespan, maxHealth, health and the
\* combat stats as they are.
C15_InitializersAreIdempotent ==
  [][ \A i \in Ids :
        /\ ( /\ last'.op = "initializeReproductionTraits" /\ last'.who = i
             /\ ticks' = ticks + 1
             /\ dw[i].reproductionCooldown # undefined
             /\ dw[i].mateSeekingTimer # undefined
             /\ dw[i].pregnancyTimer # undefined
             /\ validateStrategy(dw[i]) ) =>
             ReproductiveState(dw'[i]) = ReproductiveState(dw[i])
        /\ ( /\ last'.op = "initializeDwarf" /\ last'.who = i
             /\ ticks' = ticks + 1
             /\ dw[i].maxLifespan # undefined
             /\ dw[i].health # undefined ) =>
             VitalState(dw'[i]) = VitalState(dw[i]) ]_vars

\* ------------------------------------- reproduction: from creation to birth
\* agent 1: an adult male as the host created him, or initialized: in order,
\* or with a strategy whose properties are missing
LifecycleMales ==
  { [Blank EXCEPT !.gender = "male", !.isAdult = TRUE, !.y = 10 * PosScale],
    Male("yellow", 0, 10 * PosScale, 0, 0),
    [Male("blue", 0, 10 * PosScale, 0, 0) EXCEPT !.guardedFemale = undefined],
    [Male("orange", 0, 10 * PosScale, 0, 0) EXCEPT !.territoryX = undefined,
                                                   !.territoryY = undefined] }

\* agent 2: an adult female as the host created her, or initialized: available,
\* or one tick from giving birth
LifecycleFemales ==
  { [Blank EXCEPT !.gender = "female", !.isAdult = TRUE],
    Female(0, 0, CHOOSE p \in Profiles : p.openness > 70, FALSE, 0, 0),
    Female(0, 0, CHOOSE p \in Profiles : p.openness > 70,
           TRUE, NearTerm + 1, FEMALE_REPRODUCTION_COOLDOWN) }

InitLifecycle ==
  /\ \E a \in LifecycleMales, b \in LifecycleFemales :
       /\ dwarfs = <<1, 2>>
       /\ dw = [i \in Ids |-> IF i = 1 THEN a ELSE IF i = 2 THEN b ELSE Blank]
  /\ emitted = <<>>
  /\ calls = <<>>
  /\ last = Op("init", null, null, FALSE)
  /\ ticks = 0
  /\ DwarfDefined = TRUE
  /\ timeouts = <<>>
  /\ attacks = <<>>
  /\ deathLog = <<>>
  /\ bus = NewBus
  /\ applied = NoCall

NextLifecycle ==
  \/ \E i \in Ids : InitializeReproductionTraits(i)
  \/ \E i \in Ids : UpdateReproductionBehavior(i)
  \/ UpdatePregnancies

SpecLifecycle == InitLifecycle /\ [][NextLifecycle]_vars

\* C16: every male that initializeReproductionTraits has seen (his timers are
\* set) carries one of the three strategies, adult or not, and no female
\* carries a strategy, after any sequence of initializations, dispatches with
\* their reassignments, and births.
C16_StrategyByGender ==
  \A i \in Range(dwarfs) :
    /\ (dw[i].gender = "male" /\ dw[i].mateSeekingTimer # undefined) =>
         dw[i].reproductionStrategy \in Range(MALE_STRATEGIES)
    /\ dw[i].gender = "female" => dw[i].reproductionStrategy = "undefined"

\* a son born to agent 2 after agent 1 was initialized or dispatched
C16_Witness ==
  /\ last.op = "updatePregnancies" /\ ticks = 2
  /\ Len(dwarfs) = 3
  /\ dw[3].gender = "male" /\ ~dw[3].isAdult
  /\ dw[3].reproductionStrategy \in Range(MALE_STRATEGIES)
  /\ dw[1].mateSeekingTimer # undefined
  /\ dw[2].reproductionStrategy = "undefined"

\* ------------------------------------------------- the event bus: the system
MaxCalls == 4

engine == <<dwarfs, dw, emitted, calls, last, ticks, DwarfDefined, timeouts,
            attacks, deathLog, applied>>

BusOp(op, eventType, callback, sub) ==
  [op |-> op, eventType |-> eventType, callback |-> callback, sub |-> sub]

\* what the host's modules subscribe with
Subscriptions ==
  { [eventType |-> "birth", callback |-> "f", once |-> FALSE, priority |-> 0],
    [eventType |-> "birth", callback |-> "f", once |-> FALSE, priority |-> 1],
    [eventType |-> "birth", callback |-> "f", once |-> TRUE, priority |-> 0],
    [eventType |-> "birth", callback |-> "g", once |-> FALSE, priority |-> 1],
    [eventType |-> "birth", callback |-> "g", once |-> FALSE, priority |-> 0],
    [eventType |-> "birth", callback |-> "u", once |-> FALSE, priority |-> 1],
    [eventType |-> "mating_success", callback |-> "f", once |-> FALSE,
     priority |-> 0] }

\* eventBus.subscribe(eventType, callback, {once, priority}); the caller keeps
\* the unsubscribe closure
Subscribe(o) ==
  /\ bus.calls < MaxCalls
  /\ bus' = [subscribe(bus, o.eventType, o.callback, o) EXCEPT
               !.calls = @ + 1,
               !.invoked = <<>>, !.threw = FALSE,
               !.handles = @ \cup {[eventType |-> o.eventType,
                                    callback |-> o.callback,
                                    sub |-> bus.subscribed + 1]},
               !.last = BusOp("subscribe", o.eventType, o.callback,
                              bus.subscribed + 1)]
  /\ UNCHANGED engine

\* a call of an unsubscribe closure: () => this.unsubscribe(eventType, callback)
Unsubscribe(h) ==
  /\ bus.calls < MaxCalls
  /\ h \in bus.handles
  /\ bus' = [unsubscribe(bus, h.eventType, h.callback) EXCEPT
               !.calls = @ + 1,
               !.invoked = <<>>, !.threw = FALSE,
               !.last = BusOp("unsubscribe", h.eventType, h.callback, h.sub)]
  /\ UNCHANGED engine

\* eventBus.emit(eventType, data)
Emit(eventType) ==
  /\ bus.calls < MaxCalls
  /\ bus' = [emitEvent(bus, eventType) EXCEPT
               !.calls = @ + 1,
               !.last = BusOp("emit", eventType, "", 0)]
  /\ UNCHANGED engine

\* no agents: the bus on its own
NoEngine ==
  /\ dwarfs = <<>>
  /\ dw = [i \in Ids |-> Blank]
  /\ emitted = <<>>
  /\ calls = <<>>
  /\ last = Op("init", null, null, FALSE)
  /\ ticks = 0
  /\ DwarfDefined = TRUE
  /\ timeouts = <<>>
  /\ attacks = <<>>
  /\ deathLog = <<>>

InitBus == NoEngine /\ bus = NewBus /\ applied = NoCall

NextBus ==
  \/ \E o \in Subscriptions : Subscribe(o)
  \/ \E h \in bus.handles : Unsubscribe(h)
  \/ \E t \in EventTypes : Emit(t)

SpecBus == InitBus /\ [][NextBus]_vars

\* the bus after n birth events were published, with or without a subscriber
Published(n, subscriber) ==
  LET b == [NewBus EXCEPT !.published = n,
                          !.eventHistory = [k \in 1..n |-> [type |-> "birth", n |-> k]]]
  IN  IF subscriber
      THEN subscribe(b, "birth", "f", [once |-> FALSE, priority |-> 0])
      ELSE b

InitHistory ==
  /\ NoEngine
  /\ applied = NoCall
  /\ \E n \in (maxHistorySize - 3)..(maxHistorySize - 1), subscriber \in BOOLEAN :
       bus = Published(n, subscriber)

NextHistory == \E t \in EventTypes : Emit(t)

SpecHistory == InitHistory /\ [][NextHistory]_vars

\* C17: the event history never holds more than 1000 events, and what it holds
\* are the most recently published events, oldest first: its k-th entry is the
\* event published (length - k) emits before the latest.
C17_HistoryIsTheLatestEvents ==
  LET h == bus.eventHistory
  IN  /\ Len(h) <= maxHistorySize
      /\ Len(h) = IF bus.published < maxHistorySize THEN bus.published
                  ELSE maxHistorySize
      /\ \A k \in 1..Len(h) : h[k].n = bus.published - Len(h) + k

\* more than 1000 events were published and the oldest ones are gone
C17_Witness ==
  /\ bus.last.op = "emit"
  /\ bus.published = maxHistorySize + 1
  /\ Len(bus.eventHistory) = maxHistorySize
  /\ bus.eventHistory[1].n = 2
  /\ bus.eventHistory[maxHistorySize].n = maxHistorySize + 1
  /\ bus.eventHistory[maxHistorySize].type = bus.last.eventType

\* C18: emit(type) invokes, before it returns, exactly the handlers subscribed
\* to that type when it was called, each once, those of higher priority first
\* and those of equal priority in the order of their subscription; handlers of
\* other types are not invoked.
C18_DeliveryOrder ==
  [][ (bus'.last.op = "emit" /\ bus'.calls = bus.calls + 1) =>
        LET L == bus.listeners[bus'.last.eventType]
            inv == bus'.invoked
        IN  /\ Len(inv) = Len(L)
            /\ Range(inv) = Range(L)
            /\ \A j, k \in 1..Len(inv) :
                 j < k => \/ inv[j].priority > inv[k].priority
                          \/ /\ inv[j].priority = inv[k].priority
                             /\ inv[j].sub < inv[k].sub ]_vars

\* three handlers were invoked: a later subscriber of higher priority first,
\* then two of equal priority in subscription order
C18_Witness ==
  /\ bus.last.op = "emit"
  /\ Len(bus.invoked) = 3
  /\ bus.invoked[1].priority > bus.invoked[2].priority
  /\ bus.invoked[1].sub > bus.invoked[2].sub
  /\ bus.invoked[2].priority = bus.invoked[3].priority
  /\ bus.invoked[2].sub < bus.invoked[3].sub

\* C19: when a handler throws during a delivery, the handlers after it are
\* still invoked for that event and emit returns normally: every handler
\* subscribed to the type was invoked, and the event is in the history.
C19_ThrowingHandlerIsContained ==
  [][ ( /\ bus'.last.op = "emit" /\ bus'.calls = bus.calls + 1
        /\ \E k \in 1..Len(bus.listeners[bus'.last.eventType]) :
             bus.listeners[bus'.last.eventType][k].callback = "g" ) =>
        /\ ~bus'.threw
        /\ \A k \in 1..Len(bus.listeners[bus'.last.eventType]) :
             \E j \in 1..Len(bus'.invoked) :
               bus'.invoked[j] = bus.listeners[bus'.last.eventType][k]
        /\ bus'.published = bus.published + 1 ]_vars

\* the first handler invoked threw and two more were invoked after it
C19_Witness ==
  /\ bus.last.op = "emit" /\ ~bus.threw
  /\ Len(bus.invoked) = 3
  /\ bus.invoked[1].callback = "g"
  /\ bus.invoked[2].callback # "g"

\* the listener objects of a list as the bus holds them: handler, once flag
\* and priority, in list order
Registered(listeners) ==
  [k \in 1..Len(listeners) |->
     [callback |-> listeners[k].callback, once |-> listeners[k].once,
      priority |-> listeners[k].priority]]

\* C20: calling the unsubscribe handle of a subscription removes that
\* subscription and no other: the listeners of the handle's type are the
\* former ones without the handle's own subscription, and the listeners of
\* the other types are as before.
C20_HandleRemovesItsSubscription ==
  [][ (bus'.last.op = "unsubscribe" /\ bus'.calls = bus.calls + 1) =>
        \A t \in EventTypes :
          Registered(bus'.listeners[t]) =
            Registered(IF t = bus'.last.eventType
                       THEN SelectSeq(bus.listeners[t],
                                      LAMBDA l : l.sub # bus'.last.sub)
                       ELSE bus.listeners[t]) ]_vars

\* ------------------------------------------------ ReproductionConfig.js
\* JavaScript values a setting can hold: a number (kept in thousandths), NaN,
\* undefined, or a string that is no number
Num(v) == [t |-> "number", v |-> v]
Whole(n) == Num(n * 1000)
NaN == [t |-> "NaN", v |-> 0]
Undefined == [t |-> "undefined", v |-> 0]
Text == [t |-> "string", v |-> 0]

\* x <= n and x > n for a setting x and an integer n: false for whatever
\* converts to NaN
AtMost(x, n) == x.t = "number" /\ x.v <= n * 1000
Above(x, n) == x.t = "number" /\ x.v > n * 1000
Below(x, n) == x.t = "number" /\ x.v < n * 1000
\* typeof x === 'number'
IsNumber(x) == x.t \in {"number", "NaN"}
\* Number.isInteger(x)
IsInteger(x) == x.t = "number" /\ x.v % 1000 = 0

\* /^#[0-9A-Fa-f]{6}$/.test(color), for the colours the model uses
IsHexColor(color) == color \in {"#FF6600", "#0066FF", "#FFFF00"}

\* REPRODUCTION_CONFIG as exported
REPRODUCTION_CONFIG ==
  [MATING_SUCCESS_RATE |-> Num(700),
   PREGNANCY_DURATION |-> Whole(PREGNANCY_DURATION),
   MATURITY_THRESHOLD |-> Whole(1800),
   FEMALE_REPRODUCTION_COOLDOWN |-> Whole(FEMALE_REPRODUCTION_COOLDOWN),
   MALE_REPRODUCTION_COOLDOWN |-> Whole(MALE_REPRODUCTION_COOLDOWN),
   MALE_STRATEGIES |-> MALE_STRATEGIES,
   ORANGE_STRATEGY |->
     [cooldown |-> Whole(300), matingChance |-> Num(20), color |-> "#FF6600",
      territoryRadius |-> Whole(80), matingDistance |-> Whole(25),
      competitorDistance |-> Whole(60), displacementChance |-> Num(100)],
   BLUE_STRATEGY |->
     [cooldown |-> Whole(240), matingChance |-> Num(15), color |-> "#0066FF",
      guardDistance |-> Whole(30), maxGuardRange |-> Whole(40)],
   YELLOW_STRATEGY |->
     [cooldown |-> Whole(180), matingChance |-> Num(25), color |-> "#FFFF00",
      matingDistance |-> Whole(35), guardDetectionRadius |-> Whole(50),
      hidingRange |-> Whole(100)],
   FEMALE_SELECTION |->
     [baseScore |-> Whole(50), randomVariance |-> Whole(20),
      evaluationChance |-> Num(8),
      agreeableness |-> Whole(60), openness |-> Whole(70),
      neuroticism |-> Whole(40)]]

\* the setting named by the first check of the list that fails; <<>> if none
RECURSIVE FirstError(_)
FirstError(checks) ==
  IF checks = <<>> THEN <<>>
  ELSE IF checks[1][1] THEN checks[1][2]
  ELSE FirstError(Tail(checks))

\* the check of validateStrategyConfig for a property that must be a positive number
PositiveNumber(strategyConfig, strategyName, prop) ==
  << ~IsNumber(strategyConfig[prop]) \/ AtMost(strategyConfig[prop], 0),
     <<strategyName, prop>> >>

\* validateStrategyConfig(strategyConfig, strategyName): the setting its error
\* names, or <<>> when it returns
validateStrategyConfig(strategyConfig, strategyName) ==
  FirstError(
    << PositiveNumber(strategyConfig, strategyName, "cooldown"),
       PositiveNumber(strategyConfig, strategyName, "matingChance"),
       << Above(strategyConfig.matingChance, 1), <<strategyName, "matingChance">> >>,
       << ~IsHexColor(strategyConfig.color), <<strategyName, "color">> >> >>
    \o (CASE strategyName = "ORANGE_STRATEGY" ->
               << PositiveNumber(strategyConfig, strategyName, "territoryRadius"),
                  PositiveNumber(strategyConfig, strategyName, "matingDistance"),
                  PositiveNumber(strategyConfig, strategyName, "competitorDistance"),
                  PositiveNumber(strategyConfig, strategyName, "displacementChance") >>
          [] strategyName = "BLUE_STRATEGY" ->
               << PositiveNumber(strategyConfig, strategyName, "guardDistance"),
                  PositiveNumber(strategyConfig, strategyName, "maxGuardRange") >>
          [] OTHER ->
               << PositiveNumber(strategyConfig, strategyName, "matingDistance"),
                  PositiveNumber(strategyConfig, strategyName, "guardDetectionRadius"),
                  PositiveNumber(strategyConfig, strategyName, "hidingRange") >>))

\* validateConfig(config): the setting its error names, or <<>> when it returns
validateConfig(config) ==
  LET core ==
        FirstError(
          << << AtMost(config.MATING_SUCCESS_RATE, 0) \/ Above(config.MATING_SUCCESS_RATE, 1),
                <<"MATING_SUCCESS_RATE">> >>,
             << AtMost(config.PREGNANCY_DURATION, 0) \/ ~IsInteger(config.PREGNANCY_DURATION),
                <<"PREGNANCY_DURATION">> >>,
             << AtMost(config.MATURITY_THRESHOLD, 0) \/ ~IsInteger(config.MATURITY_THRESHOLD),
                <<"MATURITY_THRESHOLD">> >>,
             << AtMost(config.FEMALE_REPRODUCTION_COOLDOWN, 0)
                  \/ ~IsInteger(config.FEMALE_REPRODUCTION_COOLDOWN),
                <<"cooldown at index", "0">> >>,
             << AtMost(config.MALE_REPRODUCTION_COOLDOWN, 0)
                  \/ ~IsInteger(config.MALE_REPRODUCTION_COOLDOWN),
                <<"cooldown at index", "1">> >>,
             << Len(config.MALE_STRATEGIES) # 3, <<"MALE_STRATEGIES">> >>,
             << "orange" \notin Range(config.MALE_STRATEGIES), <<"strategy", "orange">> >>,
             << "blue" \notin Range(config.MALE_STRATEGIES), <<"strategy", "blue">> >>,
             << "yellow" \notin Range(config.MALE_STRATEGIES), <<"strategy", "yellow">> >> >>)
      orange == validateStrategyConfig(config.ORANGE_STRATEGY, "ORANGE_STRATEGY")
      blue == validateStrategyConfig(config.BLUE_STRATEGY, "BLUE_STRATEGY")
      yellow == validateStrategyConfig(config.YELLOW_STRATEGY, "YELLOW_STRATEGY")
      femaleConfig == config.FEMALE_SELECTION
      trait(name) ==
        << << ~IsNumber(femaleConfig[name]), <<"FEMALE_SELECTION", name>> >>,
           << Below(femaleConfig[name], 0) \/ Above(femaleConfig[name], 100),
              <<"FEMALE_SELECTION", name>> >> >>
      female ==
        FirstError(
          << << AtMost(femaleConfig.baseScore, 0), <<"FEMALE_SELECTION", "baseScore">> >>,
             << Below(femaleConfig.randomVariance, 0),
                <<"FEMALE_SELECTION", "randomVariance">> >>,
             << AtMost(femaleConfig.evaluationChance, 0)
                  \/ Above(femaleConfig.evaluationChance, 1),
                <<"FEMALE_SELECTION", "evaluationChance">> >> >>
          \o trait("agreeableness") \o trait("openness") \o trait("neuroticism"))
  IN  IF core # <<>> THEN core
      ELSE IF orange # <<>> THEN orange
      ELSE IF blue # <<>> THEN blue
      ELSE IF yellow # <<>> THEN yellow
      ELSE female

\* the engine and the bus as constructed, nothing running
Idle == NoEngine /\ bus = NewBus

\* ------------------------------------------------ validation of a configuration
\* values a numeric setting of a hand-edited configuration may hold
SettingValues ==
  {Num(-1000), Num(0), Num(500), Num(1000), Num(1500), Whole(240), Num(240500),
   NaN, Undefined, Text}

StrategyNames == {"ORANGE_STRATEGY", "BLUE_STRATEGY", "YELLOW_STRATEGY"}

\* REPRODUCTION_CONFIG with one setting replaced
Configs ==
  {[REPRODUCTION_CONFIG EXCEPT ![k] = v] :
     k \in {"MATING_SUCCESS_RATE", "FEMALE_REPRODUCTION_COOLDOWN",
            "MALE_REPRODUCTION_COOLDOWN"}, v \in SettingValues}
  \cup {[REPRODUCTION_CONFIG EXCEPT ![s][p] = v] :
          s \in StrategyNames, p \in {"cooldown", "matingChance"}, v \in SettingValues}

InitConfig ==
  /\ Idle
  /\ \E config \in Configs :
       applied = [fn |-> "validateConfig", config |-> config, returned |-> FALSE,
                  error |-> <<>>]

\* the module's load: validateConfig(config) inside try/catch
ValidateConfig ==
  /\ applied.fn = "validateConfig"
  /\ ~applied.returned
  /\ applied' = [applied EXCEPT !.returned = TRUE,
                                !.error = validateConfig(applied.config)]
  /\ UNCHANGED <<dwarfs, dw, emitted, calls, last, ticks, DwarfDefined, timeouts,
                 attacks, deathLog, bus>>

NextConfig == ValidateConfig

SpecConfig == InitConfig /\ [][NextConfig]_vars

\* a probability: a number in (0, 1]
IsProbability(x) == x.t = "number" /\ x.v > 0 /\ x.v <= 1000
\* a positive integer
IsPositiveInteger(x) == x.t = "number" /\ x.v > 0 /\ x.v % 1000 = 0

\* the settings of a configuration that break a rule of the three stated, each
\* under the names an error may give it
Offending(config) ==
  {<<"MATING_SUCCESS_RATE">> : k \in {1} \cap
      (IF IsProbability(config.MATING_SUCCESS_RATE) THEN {} ELSE {1})}
  \cup {<<"cooldown at index", "0">> : k \in {1} \cap
      (IF IsPositiveInteger(config.FEMALE_REPRODUCTION_COOLDOWN) THEN {} ELSE {1})}
  \cup {<<"cooldown at index", "1">> : k \in {1} \cap
      (IF IsPositiveInteger(config.MALE_REPRODUCTION_COOLDOWN) THEN {} ELSE {1})}
  \cup {<<s, "cooldown">> : s \in {n \in StrategyNames :
                                     ~IsPositiveInteger(config[n].cooldown)}}
  \cup {<<s, "matingChance">> : s \in {n \in StrategyNames :
                                         ~IsProbability(config[n].matingChance)}}

\* C21: once validateConfig has run on a configuration whose mating success
\* rate is outside (0, 1], or one of whose cooldowns (female, male, or a
\* strategy's) is not a positive integer, or one of whose strategies has a
\* mating chance that is no probability, it has thrown an error that names
\* one of the offending settings
C21_InvalidConfigIsRejected ==
  (applied.fn = "validateConfig" /\ applied.returned
     /\ Offending(applied.config) # {})
    => applied.error \in Offending(applied.config)

\* ------------------------------------------------ two runs of one simulation
\* LifespanCombatSystem.update(dwarfs, world) with the random numbers given:
\* rs[d] is what agent d's update draws, if it draws
RECURSIVE updateWith(_, _, _)
updateWith(w, rs, k) ==
  IF k > Len(w.pop) THEN w
  ELSE updateWith(IF w.threw \/ w.dw[w.pop[k]].isDead THEN w
                  ELSE updateDwarf(w, w.pop[k], rs[w.pop[k]]),
                  rs, k + 1)

\* what an agent's update may draw in a replayed tick: it engages nobody, or
\* everybody with the lowest damage roll, the struck agent retaliating or not
TickDraws ==
  {NoCombatDraw} \cup
  { [engage |-> [t \in Ids |-> TRUE], u |-> 0, crit |-> FALSE, ret |-> ret] :
      ret \in BOOLEAN }

\* what every retaliation callback draws, in either run
CallbackDraw ==
  [engage |-> [t \in Ids |-> FALSE], u |-> 0, crit |-> FALSE, ret |-> FALSE]

\* the world of the second run as its next operation finds it
Second ==
  [applied.w EXCEPT !.ev = <<>>, !.att = <<>>, !.threw = FALSE, !.hits = <<>>,
                    !.deaths = <<>>]

\* the state an operation of each run leaves behind
CommitBoth(w1, w2, op) ==
  /\ dw' = w1.dw
  /\ dwarfs' = w1.pop
  /\ emitted' = w1.ev
  /\ calls' = w1.att
  /\ last' = op
  /\ timeouts' = w1.timeouts
  /\ attacks' = w1.hits
  /\ deathLog' = w1.deaths
  /\ applied' = [applied EXCEPT !.w = w2]
  /\ UNCHANGED <<DwarfDefined, bus>>

\* both runs start from one population of two
InitReplay ==
  /\ \E b \in VitalSeconds : \E a \in VitalFirsts(b) :
       /\ dwarfs = <<1, 2>>
       /\ dw = [i \in Ids |-> IF i = 1 THEN a ELSE IF i = 2 THEN b ELSE Blank]
  /\ emitted = <<>>
  /\ calls = <<>>
  /\ last = Op("init", null, null, FALSE)
  /\ ticks = 0
  /\ DwarfDefined = TRUE
  /\ timeouts = <<>>
  /\ attacks = <<>>
  /\ deathLog = <<>>
  /\ bus = NewBus
  /\ applied = [fn |-> "replay", w |-> World]

\* the game loop's tick in both runs, the agents drawing the same numbers
Tick ==
  /\ ticks < MaxTicks
  /\ \E rs \in [Ids -> TickDraws] :
       /\ \A i \in Ids \ Range(dwarfs) : rs[i] = NoCombatDraw
       /\ CommitBoth(updateWith(World, rs, 1), updateWith(Second, rs, 1),
                     Op("update", null, null, FALSE))
  /\ ticks' = ticks + 1

\* the event loop of the first run runs its oldest pending callback
FireFirst ==
  /\ Len(timeouts) > 0
  /\ CommitBoth(retaliate([World EXCEPT !.timeouts = Tail(@)],
                          Head(timeouts).attacker, Head(timeouts).target,
                          CallbackDraw),
                applied.w,
                Op("retaliation", Head(timeouts).target, Head(timeouts).attacker,
                   FALSE))
  /\ UNCHANGED ticks

\* the event loop of the second run runs its oldest pending callback
FireSecond ==
  /\ Len(applied.w.timeouts) > 0
  /\ CommitBoth([World EXCEPT !.ev = emitted, !.att = calls, !.hits = attacks,
                              !.deaths = deathLog],
                retaliate([Second EXCEPT !.timeouts = Tail(@)],
                          Head(applied.w.timeouts).attacker,
                          Head(applied.w.timeouts).target, CallbackDraw),
                last)
  /\ UNCHANGED ticks

NextReplay ==
  \/ Tick
  \/ FireFirst
  \/ FireSecond

SpecReplay == InitReplay /\ [][NextReplay]_vars

\* C22: two runs from one population whose agents and callbacks draw the same
\* random numbers are, after the same number of ticks and with every deferred
\* attack of either run delivered, in the same agent state
C22_RunsAgree ==
  (applied.fn = "replay" /\ timeouts = <<>> /\ applied.w.timeouts = <<>>)
    => (dw = applied.w.dw /\ dwarfs = applied.w.pop)

\* C23: every birth event published names the mother and the baby (both in
\* the population) and carries as pregnancyDuration the number of ticks the
\* pregnancy lasted, PREGNANCY_DURATION
C23_BirthEventCarriesDuration ==
  \A k \in 1..Len(emitted) : emitted[k].type = "birth" =>
     /\ emitted[k].a \in Range(dwarfs)
     /\ emitted[k].b \in Range(dwarfs)
     /\ emitted[k].n = PREGNANCY_DURATION

\* C24: every mating attempt an operation made, by a male's strategy or by
\* female choice, is published by that operation: as a mating_failure event
\* for the pair when the female was not available, and otherwise as a
\* mating_attempt event for the pair whose success flag is the roll's outcome
C24_EveryAttemptIsPublished ==
  \A k \in 1..Len(calls) :
     \E e \in 1..Len(emitted) :
        /\ emitted[e].a = calls[k].male
        /\ emitted[e].b = calls[k].female
        /\ IF calls[k].available
           THEN emitted[e].type = "mating_attempt" /\ emitted[e].ok = calls[k].roll
           ELSE emitted[e].type = "mating_failure"

\* ------------------------------------------------ one agent choosing a target
\* agents 2 and 3 around agent 1: a female or a territorial male, between 10
\* and 35 units to either side
Bystanders ==
  { Vital(a, "undefined", Young, HP(MaxHealth), 0) :
      a \in { Male("orange", x * PosScale, 0, 0, 0) : x \in {-10, 15, 30, 35} }
            \cup
            { Female(x * PosScale, 0, CHOOSE p \in Profiles : p.openness > 70,
                     FALSE, 0, 0) : x \in {-10, 15, 30, 35} } }

\* agent 1 at the origin, a territorial male ready to attack, with or
\* without a combat target from an earlier fight
InitTarget ==
  /\ \E b \in Bystanders, c \in Bystanders, combatTarget \in {null, 2, 3} :
       /\ dwarfs = <<1, 2, 3>>
       /\ dw = [i \in Ids |->
                  IF i = 1
                  THEN [Vital(Male("orange", 0, 0, 0, 0), "fighter", Young,
                              HP(MaxHealth), 0)
                          EXCEPT !.combatTarget = combatTarget,
                                 !.isInCombat = combatTarget # null]
                  ELSE IF i = 2 THEN b ELSE IF i = 3 THEN c ELSE Blank]
  /\ emitted = <<>>
  /\ calls = <<>>
  /\ last = Op("init", null, null, FALSE)
  /\ ticks = 0
  /\ DwarfDefined = TRUE
  /\ timeouts = <<>>
  /\ attacks = <<>>
  /\ deathLog = <<>>
  /\ bus = NewBus
  /\ applied = NoCall

\* handleCombatBehavior(dwarf, world) for agent 1, its random numbers r
HandleCombatBehavior ==
  /\ applied = NoCall
  /\ \E r \in AttackDraws, E \in SUBSET {2, 3} :
       LET draw == [r EXCEPT !.engage = [t \in Ids |-> t \in E]]
           w == handleCombatBehavior(World, 1, draw)
       IN  /\ dw' = w.dw
           /\ dwarfs' = w.pop
           /\ emitted' = w.ev
           /\ calls' = w.att
           /\ last' = Op("handleCombatBehavior", 1, null, w.threw)
           /\ timeouts' = w.timeouts
           /\ attacks' = w.hits
           /\ deathLog' = w.deaths
           /\ applied' = [fn |-> "handleCombatBehavior", dwarf |-> 1, r |-> draw]
  /\ UNCHANGED <<DwarfDefined, bus, ticks>>

NextTarget == HandleCombatBehavior

SpecTarget == InitTarget /\ [][NextTarget]_vars

\* the agents d's handler finds eligible with the rolls r: alive, within
\* twice the attack range, and worth engaging
Eligible(d, r) ==
  {t \in Range(dwarfs) \ {d} :
     /\ Closer(dw, d, t, CombatConfig.attackRange * 2)
     /\ dw[t].health > 0
     /\ shouldEngageInCombat(dw[d], dw[t], r.engage[t])}

\* the eligible agents nearest to d by Euclidean distance
Nearest(d, r) ==
  {t \in Eligible(d, r) :
     \A o \in Eligible(d, r) : Dist2(dw[d], dw[t]) <= Dist2(dw[d], dw[o])}

\* C25: when handleCombatBehavior runs for an adult agent off cooldown that
\* has several eligible targets, it engages a nearest one: within attackRange
\* it attacks that target at once (the one attack of the call), and otherwise
\* it moves toward it
C25_EngagesNearestTarget ==
  [][ (applied'.fn = "handleCombatBehavior"
         /\ Cardinality(Eligible(1, applied'.r)) > 1)
        => \E t \in Nearest(1, applied'.r) :
             IF Within(dw, 1, t, CombatConfig.attackRange)
             THEN /\ Len(attacks') = 1
                  /\ attacks'[1].attacker = 1
                  /\ attacks'[1].target = t
             ELSE /\ attacks' = <<>>
                  /\ Dist2(dw'[1], dw'[t]) < Dist2(dw[1], dw[t]) ]_vars

\* ------------------------------------------------ combat from reproduction
\* LifespanCombatIntegration.handleMatingRivalry(eventData), the subscriber
\* of mating_success; jealous[r] is rival r's roll Math.random() < 0.2
RECURSIVE scheduleRivals(_, _, _, _, _)
scheduleRivals(w, rivals, successfulMale, jealous, k) ==
  IF k > Len(rivals) THEN w
  ELSE scheduleRivals(
         IF jealous[rivals[k]]
         THEN [w EXCEPT !.timeouts =
                 Append(@, [callback |-> "rivalry", attacker |-> rivals[k],
                            target |-> successfulMale])]
         ELSE w,
         rivals, successfulMale, jealous, k + 1)

handleMatingRivalry(w, successfulMale, jealous) ==
  LET rivals ==
        SelectSeq(getNearbyMales(w, successfulMale, 50, successfulMale),
                  LAMBDA rival :
                    /\ w.dw[rival].reproductionStrategy =
                         w.dw[successfulMale].reproductionStrategy
                    /\ w.dw[rival].health > 0
                    /\ w.dw[rival].reproductionCooldown > 0)
  IN  scheduleRivals(w, rivals, successfulMale, jealous, 1)

\* a male next to an available female, and a second male 30 units away who
\* has or has not mated recently
InitRivalry ==
  /\ \E s \in Range(MALE_STRATEGIES), rs \in Range(MALE_STRATEGIES),
        cooldown \in {0, MALE_REPRODUCTION_COOLDOWN \div 2},
        health \in {HP(MaxHealth), HP(10)} :
       /\ dwarfs = <<1, 2, 3>>
       /\ dw = [i \in Ids |->
                  IF i = 1
                  THEN Vital(Male(s, 0, 0, 0, 0), "fighter", Young, health, 0)
                  ELSE IF i = 2
                  THEN Vital(Female(10 * PosScale, 0,
                                    CHOOSE p \in Profiles : p.openness > 70,
                                    FALSE, 0, 0),
                             "undefined", Young, HP(MaxHealth), 0)
                  ELSE IF i = 3
                  THEN Vital(Male(rs, 0, 30 * PosScale, cooldown, 0), "archer",
                             Young, HP(MaxHealth), 0)
                  ELSE Blank]
  /\ emitted = <<>>
  /\ calls = <<>>
  /\ last = Op("init", null, null, FALSE)
  /\ ticks = 0
  /\ DwarfDefined = TRUE
  /\ timeouts = <<>>
  /\ attacks = <<>>
  /\ deathLog = <<>>
  /\ bus = NewBus
  /\ applied = NoCall

\* a strategy's attemptMating(male, female) with the integration subscribed:
\* the mating_success event runs handleMatingRivalry before the call returns
AttemptMatingWithRivals(m, f) ==
  /\ ticks < MaxTicks
  /\ m \in Range(dwarfs) /\ f \in Range(dwarfs)
  /\ dw[m].gender = "male" /\ dw[f].gender = "female"
  /\ \E roll \in BOOLEAN, jealous \in [Ids -> BOOLEAN] :
       LET w1 == attemptMating(World, m, f, roll)
           w2 == IF lastAttemptSucceeded(w1)
                 THEN handleMatingRivalry(w1, m, jealous)
                 ELSE w1
       IN  Commit(w2, Op("attemptMating", m, f, FALSE))
  /\ ticks' = ticks + 1

\* the event loop runs the oldest pending callback: a jealous rival's attack
\* or a struck agent's retaliation
FireCallback ==
  /\ Len(timeouts) > 0
  /\ \E r \in AttackDraws :
       LET t == Head(timeouts)
           w0 == [World EXCEPT !.timeouts = Tail(@)]
           w == IF "callback" \in DOMAIN t
                THEN performAttack(w0, t.attacker, t.target, r, TRUE)
                ELSE retaliate(w0, t.attacker, t.target, r)
       IN  Commit(w, Op("callback", t.attacker, t.target, w.threw))
  /\ UNCHANGED ticks

NextRivalry ==
  \/ \E m \in Ids, f \in Ids : AttemptMatingWithRivals(m, f)
  \/ FireCallback

SpecRivalry == InitRivalry /\ [][NextRivalry]_vars

\* C26: no attack is resolved between two agents of one sex unless both are
\* territorial (orange) males
C26_SameSexAttacksAreTerritorial ==
  \A k \in 1..Len(attacks) :
     dw[attacks[k].attacker].gender = dw[attacks[k].target].gender
       => isTerritorialDispute(dw[attacks[k].attacker], dw[attacks[k].target])

\* C27: when the yellow male's execution finds rival males within
\* guardDetectionRadius of the female it chose (its sneaky_attempt event
\* reports guards) and he is not within matingDistance of her, the call
\* attempts no mating and leaves his movement target as it was
C27_GuardedAndFarDoesNothing ==
  [][ \A k \in 1..Len(emitted') :
        ( /\ last'.op = "updateReproductionBehavior"
          /\ emitted'[k].type = "sneaky_attempt"
          /\ emitted'[k].ok
          /\ emitted'[k].a = last'.who
          /\ ~Closer(dw, emitted'[k].a, emitted'[k].b, YELLOW_STRATEGY.matingDistance) )
        => /\ calls' = <<>>
           /\ dw'[last'.who].targetX = dw[last'.who].targetX
           /\ dw'[last'.who].targetY = dw[last'.who].targetY ]_vars

\* ------------------------------------------------ AutoSaveSystem
\* frames the call stack holds before the engine raises RangeError
MaxStack == 3

\* the value of a call that exhausted the stack
RangeError == [error |-> "RangeError"]

\* an agent reference as the serializers store it: the agent's name, or null
NameOf(ref) == IF ref = null \/ ref = undefined THEN null ELSE ref

\* the 'dwarf' serializer of initializeDefaultSerializers
defaultSerializer(a, name) ==
  [name |-> name, x |-> a.x, y |-> a.y, gender |-> a.gender,
   isAdult |-> a.isAdult, class |-> a.class, personality |-> a.personality,
   reproductionStrategy |-> a.reproductionStrategy,
   isPregnant |-> a.isPregnant, pregnancyTimer |-> a.pregnancyTimer,
   reproductionCooldown |-> a.reproductionCooldown,
   territoryX |-> a.territoryX, territoryY |-> a.territoryY,
   guardedFemale |-> NameOf(a.guardedFemale),
   mateSeekingTimer |-> a.mateSeekingTimer,
   task |-> a.task, workTimer |-> a.workTimer,
   targetX |-> a.targetX, targetY |-> a.targetY]

\* serializers.get('dwarf')(dwarf), with the given function registered and
\* the given number of stack frames left; the integration's serializer starts
\* with baseData = this.autoSave.serializers.get('dwarf')(dwarf)
RECURSIVE serializeDwarf(_, _, _, _)
serializeDwarf(registered, a, name, frames) ==
  IF frames = 0 THEN RangeError
  ELSE IF registered = "default" THEN defaultSerializer(a, name)
  ELSE LET baseData == serializeDwarf(registered, a, name, frames - 1)
       IN  IF baseData = RangeError THEN RangeError
           ELSE [maxLifespan |-> a.maxLifespan, age |-> a.age,
                 maxHealth |-> a.maxHealth, health |-> a.health,
                 combatStats |-> a.combatStats,
                 attackCooldown |-> a.attackCooldown,
                 isInCombat |-> a.isInCombat,
                 combatTarget |-> NameOf(a.combatTarget),
                 lastAttacker |-> NameOf(a.lastAttacker)] @@ baseData

\* collectSaveData(): game.dwarfs.map(dwarf => dwarfSerializer(dwarf))
collectSaveData(registered, D, pop) ==
  [k \in 1..Len(pop) |-> serializeDwarf(registered, D[pop[k]], pop[k], MaxStack)]

\* the game with an AutoSaveSystem as constructed, nothing saved; agent 1
\* may carry a combat target and an attacker from a fight
InitSave ==
  /\ \E b \in Bystanders, c \in Bystanders, combatTarget \in {null, 2, 3} :
       /\ dwarfs = <<1, 2, 3>>
       /\ dw = [i \in Ids |->
                  IF i = 1
                  THEN [Vital(Male("orange", 0, 0, 0, 0), "fighter", Young,
                              HP(MaxHealth), 0)
                          EXCEPT !.combatTarget = combatTarget,
                                 !.lastAttacker = combatTarget,
                                 !.isInCombat = combatTarget # null]
                  ELSE IF i = 2 THEN b ELSE IF i = 3 THEN c ELSE Blank]
  /\ emitted = <<>>
  /\ calls = <<>>
  /\ last = Op("init", null, null, FALSE)
  /\ ticks = 0
  /\ DwarfDefined = TRUE
  /\ timeouts = <<>>
  /\ attacks = <<>>
  /\ deathLog = <<>>
  /\ bus = NewBus
  /\ applied = [fn |-> "autoSave", serializer |-> "default", saved |-> FALSE,
                threw |-> FALSE, saveData |-> <<>>]

\* LifespanCombatIntegration.setupAutoSaveIntegration(): addSerializer('dwarf', ...)
SetupAutoSaveIntegration ==
  /\ applied.fn = "autoSave"
  /\ applied.serializer = "default"
  /\ applied' = [applied EXCEPT !.serializer = "integration"]
  /\ UNCHANGED <<dwarfs, dw, emitted, calls, last, ticks, DwarfDefined, timeouts,
                 attacks, deathLog, bus>>

\* saveToSlot(slot): collectSaveData() inside try/catch
SaveToSlot ==
  /\ applied.fn = "autoSave"
  /\ ~applied.saved /\ ~applied.threw
  /\ LET saveData == collectSaveData(applied.serializer, dw, dwarfs)
     IN  IF \E k \in 1..Len(saveData) : saveData[k] = RangeError
         THEN applied' = [applied EXCEPT !.threw = TRUE]
         ELSE applied' = [applied EXCEPT !.saved = TRUE, !.saveData = saveData]
  /\ UNCHANGED <<dwarfs, dw, emitted, calls, last, ticks, DwarfDefined, timeouts,
                 attacks, deathLog, bus>>

NextSave ==
  \/ SetupAutoSaveIntegration
  \/ SaveToSlot

SpecSave == InitSave /\ [][NextSave]_vars

\* C28: with the integration's serializer installed, a save of the
\* population completes and its data holds, for every agent, the agent's
\* reproductive and vital fields unchanged, with combatTarget and
\* lastAttacker as the referenced agent's name
C28_SaveKeepsVitalFields ==
  [][ (applied.fn = "autoSave" /\ applied.serializer = "integration"
         /\ applied' # applied)
        => /\ applied'.saved /\ ~applied'.threw
           /\ Len(applied'.saveData) = Len(dwarfs)
           /\ \A k \in 1..Len(dwarfs) :
                LET data == applied'.saveData[k]
                    a == dw[dwarfs[k]]
                IN  /\ data.name = dwarfs[k]
                    /\ data.reproductionStrategy = a.reproductionStrategy
                    /\ data.isPregnant = a.isPregnant
                    /\ data.pregnancyTimer = a.pregnancyTimer
                    /\ data.reproductionCooldown = a.reproductionCooldown
                    /\ data.mateSeekingTimer = a.mateSeekingTimer
                    /\ data.age = a.age
                    /\ data.maxLifespan = a.maxLifespan
                    /\ data.health = a.health
                    /\ data.maxHealth = a.maxHealth
                    /\ data.combatStats = a.combatStats
                    /\ data.combatTarget = NameOf(a.combatTarget)
                    /\ data.lastAttacker = NameOf(a.lastAttacker) ]_vars

\* ------------------------------------------------ scoring of mates
\* steps of the variance draw when two scores are compared
ScoreGrain == 10

\* a female's personality around the three thresholds
Personalities ==
  [agreeableness : {50, 60, 61, 100}, openness : {50, 80},
   neuroticism : {0, 39, 40, 90}]

\* a female and the variance drawn for each of two scores
InitScore ==
  /\ Idle
  /\ \E p \in Personalities, ub \in 0..(ScoreGrain - 1), uo \in 0..(ScoreGrain - 1) :
       applied = [fn |-> "scoreMate", personality |-> p, ub |-> ub, uo |-> uo,
                  returned |-> FALSE, blue |-> 0, orange |-> 0]

\* scoreMate(female, male) for a blue and for an orange male
ScoreMates ==
  /\ applied.fn = "scoreMate"
  /\ ~applied.returned
  /\ LET female == [Blank EXCEPT !.gender = "female", !.isAdult = TRUE,
                                 !.personality = applied.personality]
     IN  applied' =
           [applied EXCEPT
              !.returned = TRUE,
              !.blue = scoreMateAt(female, Male("blue", 0, 0, 0, 0),
                                   applied.ub, ScoreGrain),
              !.orange = scoreMateAt(female, Male("orange", 0, 0, 0, 0),
                                     applied.uo, ScoreGrain)]
  /\ UNCHANGED <<dwarfs, dw, emitted, calls, last, ticks, DwarfDefined, timeouts,
                 attacks, deathLog, bus>>

NextScore == ScoreMates

SpecScore == InitScore /\ [][NextScore]_vars

\* C29: for a female whose agreeableness exceeds 60, whatever her openness
\* and neuroticism and whatever variance each score draws, the score of a
\* blue male is strictly higher than the score of an orange male
C29_AgreeablePrefersBlue ==
  (applied.fn = "scoreMate" /\ applied.returned
     /\ applied.personality.agreeableness > 60)
    => applied.blue > applied.orange

\* the females of the population
Females == {f \in Range(dwarfs) : dw[f].gender = "female"}

\* C30: a female that is not pregnant has pregnancyTimer = 0; while a female
\* is pregnant no operation resets or lowers her pregnancyTimer, and no
\* operation but the gestation tick changes it; isPregnant is cleared only
\* by her giving birth, together with the timer; a mating attempt on a
\* pregnant female leaves her pregnancy as it was
C30_PregnancyTimerDiscipline ==
  /\ [](\A f \in Females : ~dw[f].isPregnant => dw[f].pregnancyTimer = 0)
  /\ [][ \A f \in Females : dw[f].isPregnant =>
           IF dw'[f].isPregnant
           THEN /\ dw'[f].pregnancyTimer >= dw[f].pregnancyTimer
                /\ last'.op # "updatePregnancies"
                     => dw'[f].pregnancyTimer = dw[f].pregnancyTimer
           ELSE /\ Births(emitted', f) # {}
                /\ dw'[f].pregnancyTimer = 0 ]_vars

\* a mating attempt was made on a female in mid-pregnancy, who still is
C30_Witness ==
  /\ last.op \in {"attemptMating", "attemptMatingWithFemale"}
  /\ Len(calls) = 1
  /\ ~calls[1].available
  /\ dw[calls[1].female].isPregnant
  /\ dw[calls[1].female].pregnancyTimer > 0

\* C31: in every state the cooldown counters of every agent of the
\* population are non-negative integers: mateSeekingTimer and
\* reproductionCooldown in ticks, attackCooldown a whole number of ticks
\* (a multiple of CooldownScale elevenths)
C31_CooldownsAreNaturalNumbers ==
  \A i \in Range(dwarfs) :
     /\ dw[i].mateSeekingTimer >= 0
     /\ dw[i].reproductionCooldown >= 0
     /\ dw[i].attackCooldown >= 0
     /\ dw[i].attackCooldown % CooldownScale = 0

\* ------------------------------------------------ a female choosing a mate
\* agent 4, a female at the origin, with males 1..3 (or 1..2) around her in
\* enumeration order, and the variance each male's score draws
InitSelect ==
  /\ \E p \in Profiles, st \in [1..3 -> Range(MALE_STRATEGIES)],
        variance \in [1..3 -> Rand], n \in 2..3 :
       /\ dwarfs = <<1, 2, 3, 4>>
       /\ dw = [i \in Ids |->
                  IF i \in 1..3 THEN Male(st[i], i * PosScale, 0, 0, 0)
                  ELSE IF i = 4 THEN Female(0, 0, p, FALSE, 0, 0)
                  ELSE Blank]
       /\ applied = [fn |-> "selectPreferredMale", female |-> 4,
                     males |-> [k \in 1..n |-> k],
                     variance |-> [i \in Ids |-> IF i \in 1..3 THEN variance[i] ELSE 0],
                     returned |-> FALSE, selectedMale |-> null]
  /\ emitted = <<>>
  /\ calls = <<>>
  /\ last = Op("init", null, null, FALSE)
  /\ ticks = 0
  /\ DwarfDefined = TRUE
  /\ timeouts = <<>>
  /\ attacks = <<>>
  /\ deathLog = <<>>
  /\ bus = NewBus

\* selectPreferredMale(female, males)
SelectPreferredMale ==
  /\ applied.fn = "selectPreferredMale"
  /\ ~applied.returned
  /\ applied' = [applied EXCEPT
                   !.returned = TRUE,
                   !.selectedMale = selectPreferredMale(World, applied.female,
                                                        applied.males, applied.variance)]
  /\ UNCHANGED <<dwarfs, dw, emitted, calls, last, ticks, DwarfDefined, timeouts,
                 attacks, deathLog, bus>>

NextSelect == SelectPreferredMale

SpecSelect == InitSelect /\ [][NextSelect]_vars

\* the score the call gave candidate m
ScoreOf(m) == scoreMate(dw[applied.female], dw[m], applied.variance[m])

\* C32: the male selectPreferredMale returns is a candidate no other
\* candidate outscores, and no candidate enumerated before him has his score
C32_FirstOfTheBestIsSelected ==
  (applied.fn = "selectPreferredMale" /\ applied.returned)
    => /\ applied.selectedMale \in Range(applied.males)
       /\ \A k \in 1..Len(applied.males) :
            /\ ScoreOf(applied.males[k]) <= ScoreOf(applied.selectedMale)
            /\ (ScoreOf(applied.males[k]) = ScoreOf(applied.selectedMale)
                  => applied.selectedMale <= applied.males[k])

\* the call returned the first of two candidates sharing the highest score,
\* a lower-scored candidate having been enumerated between them
C32_Witness ==
  /\ applied.fn = "selectPreferredMale" /\ applied.returned
  /\ applied.selectedMale = 1
  /\ Len(applied.males) = 3
  /\ ScoreOf(3) = ScoreOf(1)
  /\ ScoreOf(2) < ScoreOf(1)

\* ------------------------------------------------ the enhanced orange strategy
\* object[key] for a configuration object: undefined for a missing key
Get(object, key) == IF key \in DOMAIN object THEN object[key] ELSE Undefined

\* calculateDistance(a, b) < x for a setting x: false unless x is a number
CloserThan(D, a, b, x) ==
  x.t = "number" /\ Dist2(D[a], D[b]) * 1000000 < (x.v * PosScale) * (x.v * PosScale)

\* the timer value a setting gives: the number in ticks, or undefined
TicksOf(x) == IF x.t = "number" THEN x.v \div 1000 ELSE undefined

\* faulty variant: initiateTerritorialCombat that sets the targets only
MutInitiateTerritorialCombatTargetsOnly(w, male1, male2) ==
  IF w.dw[male1].health <= 0 \/ w.dw[male2].health <= 0 THEN w
  ELSE [w EXCEPT !.dw[male1].combatTarget = male2,
                 !.dw[male2].combatTarget = male1,
                 !.timeouts = Append(@, [callback |-> "territorial",
                                         attacker |-> male1, target |-> male2])]

\* LifespanCombatIntegration.initiateTerritorialCombat(male1, male2, female)
initiateTerritorialCombat(w, male1, male2) ==
  IF w.dw[male1].health <= 0 \/ w.dw[male2].health <= 0 THEN w
  ELSE [w EXCEPT !.dw[male1].combatTarget = male2,
                 !.dw[male2].combatTarget = male1,
                 !.dw[male1].isInCombat = TRUE,
                 !.dw[male2].isInCombat = TRUE,
                 !.timeouts = Append(@, [callback |-> "territorial",
                                         attacker |-> male1, target |-> male2])]

\* competitors.forEach(...) of the enhanced establishTerritory: combat with
\* each orange competitor alive whose roll (membership in engaged) succeeds
RECURSIVE engageAll(_, _, _, _, _)
engageAll(w, m, competitors, k, engaged) ==
  IF k > Len(competitors) THEN w
  ELSE engageAll(
         IF /\ w.dw[competitors[k]].health > 0
            /\ w.dw[competitors[k]].reproductionStrategy = "orange"
            /\ competitors[k] \in engaged
         THEN initiateTerritorialCombat(w, m, competitors[k])
         ELSE w,
         m, competitors, k + 1, engaged)

\* the establishTerritory that enhanceOrangeStrategy installs; it reads its
\* settings from originalOrangeStrategy.config, the whole REPRODUCTION_CONFIG
enhancedEstablishTerritory(w, m, f, r) ==
  LET config == REPRODUCTION_CONFIG
      w4 == IF CloserThan(w.dw, m, f, Get(config, "territoryRadius"))
            THEN LET w1 == [w EXCEPT !.dw[m].territoryX = w.dw[f].x,
                                     !.dw[m].territoryY = w.dw[f].y]
                     competitors ==
                       SelectSeq(w1.pop, LAMBDA c :
                         /\ c # f
                         /\ CloserThan(w1.dw, f, c, Get(config, "competitorDistance"))
                         /\ w1.dw[c].gender = "male"
                         /\ w1.dw[c].isAdult
                         /\ c # m)
                     w2 == engageAll(w1, m, competitors, 1, r.displaced)
                 IN  IF CloserThan(w2.dw, m, f, Get(config, "matingDistance"))
                        /\ r.chance
                     THEN attemptMating(w2, m, f, r.success)
                     ELSE w2
            ELSE w
  IN  setMateSeekingTimer(w4, m, TicksOf(Get(config, "cooldown")))

\* OrangeStrategy.execute(male), its establishTerritory the strategy's own or
\* the one the integration installed
OrangeExecuteWith(w, m, r, enhanced) ==
  LET availableFemales == getAvailableFemales(w)
  IN  IF Len(availableFemales) = 0
      THEN setMateSeekingTimer(w, m, ORANGE_STRATEGY.cooldown)
      ELSE LET targetFemale == selectRandomFemale(availableFemales, r.pick)
           IN  setMateSeekingTimer(
                 IF enhanced THEN enhancedEstablishTerritory(w, m, targetFemale, r)
                 ELSE establishTerritory(w, m, targetFemale, r),
                 m, ORANGE_STRATEGY.cooldown)

\* an orange male 10, 45 or 90 units from the one available female, and a
\* rival male of any strategy 10 or 70 units from her
InitTerritory ==
  /\ \E x \in {10, 45, 90}, rs \in Range(MALE_STRATEGIES), rx \in {10, 70} :
       /\ dwarfs = <<1, 2, 3>>
       /\ dw = [i \in Ids |->
                  IF i = 1
                  THEN Vital(Male("orange", x * PosScale, 0, 0, 0), "fighter",
                             Young, HP(MaxHealth), 0)
                  ELSE IF i = 2
                  THEN Vital(Female(0, 0, CHOOSE p \in Profiles : p.openness > 70,
                                    FALSE, 0, 0),
                             "undefined", Young, HP(MaxHealth), 0)
                  ELSE IF i = 3
                  THEN Vital(Male(rs, 0, rx * PosScale, 0, 0), "archer", Young,
                             HP(MaxHealth), 0)
                  ELSE Blank]
  /\ emitted = <<>>
  /\ calls = <<>>
  /\ last = Op("init", null, null, FALSE)
  /\ ticks = 0
  /\ DwarfDefined = TRUE
  /\ timeouts = <<>>
  /\ attacks = <<>>
  /\ deathLog = <<>>
  /\ bus = NewBus
  /\ applied = [fn |-> "OrangeStrategy", enhanced |-> FALSE]

\* LifespanCombatIntegration.enhanceOrangeStrategy()
EnhanceOrangeStrategy ==
  /\ applied.fn = "OrangeStrategy"
  /\ ~applied.enhanced
  /\ applied' = [applied EXCEPT !.enhanced = TRUE]
  /\ UNCHANGED <<dwarfs, dw, emitted, calls, last, ticks, DwarfDefined, timeouts,
                 attacks, deathLog, bus>>

\* strategyFactory.getStrategy('orange').execute(male) for agent 1
ExecuteOrange ==
  /\ applied.fn = "OrangeStrategy"
  /\ ticks < MaxTicks
  /\ \E displaced \in SUBSET {3}, chance \in BOOLEAN, success \in BOOLEAN :
       LET r == [pick |-> 0, displaced |-> displaced, chance |-> chance,
                 success |-> success]
           w == OrangeExecuteWith(World, 1, r, applied.enhanced)
       IN  Commit(w, Op("execute", 1, null, w.threw))
  /\ ticks' = ticks + 1

NextTerritory ==
  \/ EnhanceOrangeStrategy
  \/ ExecuteOrange

SpecTerritory == InitTerritory /\ [][NextTerritory]_vars

\* C33: when the orange male executes his strategy and the one available
\* female is closer than territoryRadius, his territory anchor is her
\* position afterwards, with the strategy as constructed and with the
\* strategy the integration has enhanced
C33_TerritoryIsAnchoredAtFemale ==
  [][ (last'.op = "execute" /\ ticks' = ticks + 1
         /\ getAvailableFemales(World) = <<2>>
         /\ Closer(dw, 1, 2, ORANGE_STRATEGY.territoryRadius))
        => /\ dw'[1].territoryX = dw[2].x
           /\ dw'[1].territoryY = dw[2].y ]_vars

\* ------------------------------------------------------ one-time listeners
\* the bus on its own; applied.deliveries lists, over the lifetime of the bus,
\* the one-time listeners (by subscription number) in the order invoked
InitOnce ==
  /\ NoEngine
  /\ bus = NewBus
  /\ applied = [fn |-> "once", deliveries |-> <<>>]

\* eventBus.once(eventType, callback, {priority}) for a handler that returns
\* (f) or throws (g)
Once(eventType, callback, priority) ==
  /\ applied.fn = "once"
  /\ bus.calls < MaxCalls
  /\ bus' = [subscribe(bus, eventType, callback,
                       [once |-> TRUE, priority |-> priority]) EXCEPT
               !.calls = @ + 1,
               !.invoked = <<>>, !.threw = FALSE,
               !.last = BusOp("once", eventType, callback, bus.subscribed + 1)]
  /\ UNCHANGED <<dwarfs, dw, emitted, calls, last, ticks, DwarfDefined,
                 timeouts, attacks, deathLog, applied>>

\* eventBus.emit(eventType, data)
Publish(eventType) ==
  /\ applied.fn = "once"
  /\ bus.calls < MaxCalls
  /\ LET b == emitEvent(bus, eventType)
     IN  /\ bus' = [b EXCEPT !.calls = @ + 1,
                             !.last = BusOp("emit", eventType, "", 0)]
         /\ applied' = [applied EXCEPT !.deliveries =
                          @ \o [k \in 1..Len(b.invoked) |-> b.invoked[k].sub]]
  /\ UNCHANGED <<dwarfs, dw, emitted, calls, last, ticks, DwarfDefined,
                 timeouts, attacks, deathLog>>

NextOnce ==
  \/ \E t \in EventTypes, c \in {"f", "g"}, p \in {0, 1} : Once(t, c, p)
  \/ \E t \in EventTypes : Publish(t)

SpecOnce == InitOnce /\ [][NextOnce]_vars

\* C34: over the lifetime of the bus no listener registered with once is
\* invoked for more than one event, whether its handler returns or throws
C34_OnceListenerIsInvokedOnce ==
  applied.fn = "once" =>
    \A j, k \in 1..Len(applied.deliveries) :
       applied.deliveries[j] = applied.deliveries[k] => j = k

\* ---------------------------------------------------------- deferred attacks
\* the agent is dead or gone from the population
Gone(i) == i \notin Range(dwarfs) \/ dw[i].isDead \/ dw[i].health <= 0

\* C35: a deferred attack that fires when its attacker or its victim is dead
\* or gone from the population changes no agent
C35_DeferredAttackOnTheDeadDoesNothing ==
  [][ (/\ Len(timeouts) > 0
       /\ last'.op = "retaliation"
       /\ ticks' = ticks
       /\ (Gone(Head(timeouts).attacker) \/ Gone(Head(timeouts).target)))
      => dw' = dw ]_vars

\* --------------------------------------------------- the male's cooldown
\* C36: no updateReproductionBehavior, of a male or of a female, ends in a
\* successful mating whose male had reproductionCooldown > 0 when it began
C36_MaleInCooldownDoesNotMate ==
  [][ (last'.op = "updateReproductionBehavior" /\ ticks' = ticks + 1)
      => \A k \in 1..Len(emitted') :
            emitted'[k].type = "mating_success"
              => dw[emitted'[k].a].reproductionCooldown <= 0 ]_vars

\* ------------------------------------------------------------------- birth
\* a pregnant female one or two ticks from term, beside a male or a second
\* female at term, in a page that has or has not loaded the Dwarf constructor
InitBirth ==
  /\ \E x \in {0, 45 * PosScale, 90 * PosScale},
        t \in {NearTerm, NearTerm + 1},
        c \in {FEMALE_REPRODUCTION_COOLDOWN, FEMALE_REPRODUCTION_COOLDOWN - NearTerm},
        second \in { Male("blue", 0, 10 * PosScale, 0, 0),
                     Male("orange", 0, 10 * PosScale, MALE_REPRODUCTION_COOLDOWN, 0),
                     Female(10 * PosScale, 0, CHOOSE p \in Profiles : p.openness > 70,
                            TRUE, NearTerm + 1, FEMALE_REPRODUCTION_COOLDOWN) } :
       /\ dwarfs = <<1, 2>>
       /\ dw = [i \in Ids |->
                  IF i = 1
                  THEN Female(x, 0, CHOOSE p \in Profiles : p.openness > 70,
                              TRUE, t, c)
                  ELSE IF i = 2 THEN second ELSE Blank]
  /\ DwarfDefined \in BOOLEAN
  /\ emitted = <<>>
  /\ calls = <<>>
  /\ last = Op("init", null, null, FALSE)
  /\ ticks = 0
  /\ timeouts = <<>>
  /\ attacks = <<>>
  /\ deathLog = <<>>
  /\ bus = NewBus
  /\ applied = [fn |-> "giveBirth"]

\* the page loads the script that defines the global Dwarf constructor
LoadDwarf ==
  /\ applied.fn = "giveBirth"
  /\ ~DwarfDefined
  /\ DwarfDefined' = TRUE
  /\ UNCHANGED <<dwarfs, dw, emitted, calls, last, ticks, timeouts, attacks,
                 deathLog, bus, applied>>

NextBirth ==
  \/ UpdatePregnancies
  \/ LoadDwarf

SpecBirth == InitBirth /\ [][NextBirth]_vars

\* C37: in every updatePregnancies, each pregnancy that ends adds a newborn
\* to the population: a birth whose newborn cannot be created leaves the
\* mother pregnant
C37_NoPregnancyEndsWithoutNewborn ==
  [][ (last'.op = "updatePregnancies" /\ ticks' = ticks + 1)
      => Len(dwarfs') - Len(dwarfs)
           = Cardinality({i \in Range(dwarfs) :
                            dw[i].isPregnant /\ ~dw'[i].isPregnant}) ]_vars

\* ------------------------------------------------- chains of retaliations
\* two territorial males with combat statistics 15 units apart, the second at
\* full health or wounded, alone or with a female archer beside the first
InitChain ==
  /\ \E c1 \in {"fighter", "mage"}, c2 \in {"fighter", "archer"},
        h \in {HP(MaxHealth), HP(10)} :
       LET a == Vital(Male("orange", 0, 0, 0, 0), c1, Young, HP(MaxHealth), 0)
           b == Vital(Male("orange", 15 * PosScale, 0, 0, 0), c2, Young, h, 0)
       IN  \/ /\ dwarfs = <<1, 2>>
              /\ dw = [i \in Ids |-> IF i = 1 THEN a ELSE IF i = 2 THEN b ELSE Blank]
           \/ \E c \in VitalThirds :
                /\ dwarfs = <<1, 2, 3>>
                /\ dw = [i \in Ids |-> IF i = 1 THEN a ELSE IF i = 2 THEN b
                                       ELSE IF i = 3 THEN c ELSE Blank]
  /\ emitted = <<>>
  /\ calls = <<>>
  /\ last = Op("init", null, null, FALSE)
  /\ ticks = 0
  /\ DwarfDefined = TRUE
  /\ timeouts = <<>>
  /\ attacks = <<>>
  /\ deathLog = <<>>
  /\ bus = NewBus
  /\ applied = NoCall

\* the event loop runs every pending callback eventually
SpecChain == InitChain /\ [][NextVital]_vars /\ WF_vars(FireTimeout)

\* C38: a retaliation callback removes itself from the pending callbacks and
\* schedules no counter-retaliation, and the pending callbacks are eventually
\* drained for good once the engine initiates no more attacks
C38_RetaliationsDrain ==
  /\ [][ (Len(timeouts) > 0 /\ last'.op = "retaliation" /\ ticks' = ticks)
         => timeouts' = Tail(timeouts) ]_vars
  /\ <>[](timeouts = <<>>)

\* a retaliation has struck the attacker, and nothing is pending
C38_Witness ==
  /\ last.op = "retaliation"
  /\ timeouts = <<>>
  /\ \E k \in 1..Len(attacks) :
       /\ attacks[k].deferred
       /\ attacks[k].attacker = last.who
       /\ attacks[k].target = last.other
       /\ dw[last.other].health > 0
       /\ dw[last.other].attackCooldown > 0

\* -------------------------------------------------------- leaving combat
\* a step of the game loop: the steps of NextVital that advance ticks are
\* the Update steps, and Update is enabled exactly when ticks < MaxTicks
Frame == ticks < MaxTicks /\ ticks' = ticks + 1

\* the game loop runs update every frame and the event loop runs every
\* pending callback
SpecCombatFair ==
  InitChain /\ [][NextVital]_vars /\ WF_ticks(Frame) /\ WF_vars(FireTimeout)

\* the agent lives, is in combat, and its combat target is dead
FightsTheDead(i) ==
  /\ i \in Range(dwarfs)
  /\ dw[i].health > 0
  /\ ~dw[i].isDead
  /\ dw[i].isInCombat
  /\ dw[i].combatTarget \in Ids
  /\ (dw[dw[i].combatTarget].health <= 0 \/ dw[dw[i].combatTarget].isDead)

HandleCompetitorCombat(territorial, displaced) ==
  /\ territorial \in Range(dwarfs)
  /\ displaced \in Range(dwarfs)
  /\ territorial # displaced
  /\ dw[territorial].gender = "male"
  /\ dw[displaced].gender = "male"
  /\ timeouts = <<>>
  /\ LET w == initiateTerritorialCombat(World, territorial, displaced)
     IN  Commit(w, Op("handleCompetitorCombat", territorial, displaced, w.threw))
  /\ UNCHANGED ticks

\* the event loop runs the oldest pending callback: the first attack of a
\* territorial combat, or a retaliation
FireDeferred ==
  /\ Len(timeouts) > 0
  /\ \E r \in AttackDraws :
       LET t == Head(timeouts)
           w0 == [World EXCEPT !.timeouts = Tail(@)]
           w == IF "callback" \in DOMAIN t
                THEN IF w0.dw[t.attacker].health > 0 /\ w0.dw[t.target].health > 0
                     THEN performAttack(w0, t.attacker, t.target, r, TRUE)
                     ELSE w0
                ELSE retaliate(w0, t.attacker, t.target, r)
       IN  Commit(w, Op("callback", t.attacker, t.target, w.threw))
  /\ UNCHANGED ticks

\* two territorial males 15 units apart as initializeDwarf leaves them: the
\* first young or in the last tick of his life, the second at full health or
\* wounded
InitCombatState ==
  /\ \E age \in {Young, Lifespan - 1}, c2 \in {"fighter", "archer"},
        h \in {HP(MaxHealth), HP(10)} :
       /\ dwarfs = <<1, 2>>
       /\ dw = [i \in Ids |->
                  IF i = 1
                  THEN Vital(Male("orange", 0, 0, 0, 0), "fighter", age,
                             HP(MaxHealth), 0)
                  ELSE IF i = 2
                  THEN Vital(Male("orange", 15 * PosScale, 0, 0, 0), c2, Young, h, 0)
                  ELSE Blank]
  /\ emitted = <<>>
  /\ calls = <<>>
  /\ last = Op("init", null, null, FALSE)
  /\ ticks = 0
  /\ DwarfDefined = TRUE
  /\ timeouts = <<>>
  /\ attacks = <<>>
  /\ deathLog = <<>>
  /\ bus = NewBus
  /\ applied = NoCall

NextCombatState ==
  \/ Update
  \/ \E a \in Ids, b \in Ids : HandleCompetitorCombat(a, b)
  \/ FireDeferred

SpecCombatState == InitCombatState /\ [][NextCombatState]_vars

\* C40: every agent of the population has isInCombat = true exactly when its
\* combatTarget refers to an agent
C40_InCombatIffTargeted ==
  \A i \in Range(dwarfs) : dw[i].isInCombat <=> dw[i].combatTarget \in Ids

\* a death has cleared the survivor's two fields, after an attack had set
\* them
C40_Witness ==
  /\ \E k \in 1..Len(deathLog) : deathLog[k].who = 1
  /\ dw[1].isDead
  /\ dw[1].combatTarget = 2
  /\ dw[1].isInCombat
  /\ dw[2].combatTarget = null
  /\ ~dw[2].isInCombat
  /\ dw[2].lastAttacker = 1

====
